---------------------------- MODULE Spec2Model ----------------------------
(* Model of the strategy back-tester of OOP_TermProject_ver2.cpp:          *)
(* TradingStrategy (buy / sellAll / recordEquity), the three strategies    *)
(* PanicSellStrategy, DCAStrategy and HoldStrategy, and BacktestEngine     *)
(* (addStrategy, runBattle, buildReport, calculateMDD).                    *)
(*                                                                         *)
(* Numbers.  long/int values are TLA+ integers; the values of the model    *)
(* stay far below 2^31, so no conversion wraps.  A double is modelled as   *)
(* an exact fraction [num, den] with den > 0.  The rates that are          *)
(* multiplied and then truncated (feeRate, buyRatio, initialBuyRatio) are  *)
(* drawn from dyadic fractions (0, 1/4, 1/2), which a double holds         *)
(* exactly, so (long)(x * rate) is the truncated exact product.  The rates *)
(* that are only compared (stopLossRate, dcaDropRate) are compared with    *)
(* quotients of small integers: IEEE division is correctly rounded and     *)
(* monotone, so a/b <= rate in doubles exactly when it holds of the exact  *)
(* fractions.  Prices are positive, as the prices of a Stock are.          *)
EXTENDS Integers, Sequences, FiniteSets, TLC

\* ------------------------------------------------------------ bounds
\* Longest price history of the Stock.
MaxLen == 3
\* Most runBattle invocations on one engine.
MaxRuns == 2
\* Most state-changing calls of the ledger harness (LedgerSpec).
MaxCalls == 3
\* Largest quantity the ledger harness passes to buy.
MaxQty == 2
\* Longest equity series handed to calculateMDD on its own.
MaxHist == 4
\* Longest list of reports handed to BacktestReport.
MaxReports == 3
\* Most orders placed on the account.
MaxOrders == 2
\* The balance beyond which no more is paid into the account.
MaxBalance == 40004
\* The most shares put into the portfolio directly.
MaxHeld == 2
\* The most calls the caller makes on the account, its orders and the market.
MaxAccountCalls == 5
\* The longest list of strategies the engine is given.
MaxStrategies == 3
\* The most calls the caller makes on the engine and its stock.
MaxClientCalls == 6

\* ------------------------------------------------------------ input sets
Prices == {81, 90, 96, 100}
InitialCashes == {224, 448, 1000}
EquityValues == {0, 50, 80, 100}
FinalEquities == {900, 1000, 1100}
StockPrices == {10000, 30000}
\* The prices a stock is listed at.
ListedPrices == {10000}
\* Rates Market::simulatePriceChange can draw, in ten-thousandths: one of
\* the crash branch and one of the other, with which the double product
\* of 10000 lies below the exact one.
DrawnRates == {-1500, 9}
\* The initial cash of the report harness's engine, final equities for
\* 224, and final equities for 0: those of strategies constructed with a
\* cash of their own (a strategy takes its cash as a constructor argument,
\* the engine's configuration is not consulted), which never trade.
ReportCashes == {0, 224, 1000}
LowEquities == {2, 121, 224}
OwnEquities == {-100, 0, 100}
Balances == {30000}
Amounts == {0, 10001}
OrderCodes == {"005930", "000000"}
OrderQtys == {1, 2}
Frac(n, d) == [num |-> n, den |-> d]
FeeRates == {Frac(0, 1), Frac(1, 4)}
Kinds == {"PanicSell", "DCA", "Hold"}

\* ------------------------------------------------------------ arithmetic
Abs(x) == IF x < 0 THEN -x ELSE x

\* C++ integer division: the quotient truncated toward zero (b # 0).
TruncDiv(a, b) ==
    IF (a >= 0) = (b > 0) THEN Abs(a) \div Abs(b) ELSE -(Abs(a) \div Abs(b))

\* (long)(x * r) and (int)(x * r) for an integer x and a double r.
MulTrunc(x, r) == TruncDiv(x * r.num, r.den)

\* (double)a / b <= r, for b > 0.
RatioLeq(a, b, r) == a * r.den <= r.num * b

\* A double held as a fraction is NaN (0.0 / 0.0): a denominator of 0
\* stands for a division by 0.0, which gives +inf or -inf by the sign of
\* the numerator.
IsNaN(x) == x.den = 0 /\ x.num = 0

\* x < y for two doubles held as fractions with denominators >= 0: false
\* when either is NaN; -inf is below everything but itself and +inf above
\* everything but itself.
FracLess(x, y) ==
    IF IsNaN(x) \/ IsNaN(y) THEN FALSE
    ELSE IF x.den = 0 THEN x.num < 0 /\ ~(y.den = 0 /\ y.num < 0)
    ELSE IF y.den = 0 THEN y.num > 0
    ELSE x.num * y.den < y.num * x.den

\* ------------------------------------------------------------ TradingStrategy
\* The members every strategy object starts with (TradingStrategy's
\* constructor).
BaseInit(n, initCash) ==
    [name |-> n, cash |-> initCash, shares |-> 0, avgPrice |-> 0,
     equityHistory |-> <<>>, buyCount |-> 0, sellCount |-> 0]

\* TradingStrategy::getTotalValue
getTotalValue(self, price) == self.cash + self.shares * price

\* Variant of buy that debits the cost without the fee.
buyNoFee(self, price, qty, feeRate) ==
    LET cost == price * qty
        fee == MulTrunc(cost, feeRate)
    IN  IF self.cash >= cost + fee /\ qty > 0
        THEN LET totalCost == self.avgPrice * self.shares + cost
                 newShares == self.shares + qty
             IN  [self EXCEPT
                    !.shares = newShares,
                    !.avgPrice = IF newShares > 0
                                 THEN TruncDiv(totalCost, newShares) ELSE 0,
                    !.cash = self.cash - cost,
                    !.buyCount = self.buyCount + 1]
        ELSE self

\* Variant of buy whose guard compares cash with the cost alone.
buyGuardNoFee(self, price, qty, feeRate) ==
    LET cost == price * qty
        fee == MulTrunc(cost, feeRate)
    IN  IF self.cash >= cost /\ qty > 0
        THEN LET totalCost == self.avgPrice * self.shares + cost
                 newShares == self.shares + qty
             IN  [self EXCEPT
                    !.shares = newShares,
                    !.avgPrice = IF newShares > 0
                                 THEN TruncDiv(totalCost, newShares) ELSE 0,
                    !.cash = self.cash - (cost + fee),
                    !.buyCount = self.buyCount + 1]
        ELSE self

\* Variant of buy that averages over the old share count.
buyAvgOldShares(self, price, qty, feeRate) ==
    LET cost == price * qty
        fee == MulTrunc(cost, feeRate)
    IN  IF self.cash >= cost + fee /\ qty > 0
        THEN LET totalCost == self.avgPrice * self.shares + cost
                 newShares == self.shares + qty
             IN  [self EXCEPT
                    !.shares = newShares,
                    !.avgPrice = IF self.shares > 0
                                 THEN TruncDiv(totalCost, self.shares) ELSE price,
                    !.cash = self.cash - (cost + fee),
                    !.buyCount = self.buyCount + 1]
        ELSE self

\* Variant of buy that does not compare the cash with the cost.
buyUnchecked(self, price, qty, feeRate) ==
    LET cost == price * qty
        fee == MulTrunc(cost, feeRate)
    IN  IF qty > 0
        THEN LET totalCost == self.avgPrice * self.shares + cost
                 newShares == self.shares + qty
             IN  [self EXCEPT
                    !.shares = newShares,
                    !.avgPrice = IF newShares > 0
                                 THEN TruncDiv(totalCost, newShares) ELSE 0,
                    !.cash = self.cash - (cost + fee),
                    !.buyCount = self.buyCount + 1]
        ELSE self

\* TradingStrategy::buy: the object after the call.
buy(self, price, qty, feeRate) ==
    LET cost == price * qty
        fee == MulTrunc(cost, feeRate)
    IN  IF self.cash >= cost + fee /\ qty > 0
        THEN LET totalCost == self.avgPrice * self.shares + cost
                 newShares == self.shares + qty
             IN  [self EXCEPT
                    !.shares = newShares,
                    !.avgPrice = IF newShares > 0
                                 THEN TruncDiv(totalCost, newShares) ELSE 0,
                    !.cash = self.cash - (cost + fee),
                    !.buyCount = self.buyCount + 1]
        ELSE self

\* Variant of sellAll that keeps the average price of the sold shares.
sellAllKeepAvg(self, price, feeRate) ==
    IF self.shares > 0
    THEN LET revenue == price * self.shares
             fee == MulTrunc(revenue, feeRate)
         IN  [self EXCEPT
                !.cash = self.cash + (revenue - fee),
                !.shares = 0,
                !.sellCount = self.sellCount + 1]
    ELSE self

\* Variant of sellAll that credits the revenue without deducting the fee.
sellAllNoFee(self, price, feeRate) ==
    IF self.shares > 0
    THEN LET revenue == price * self.shares
         IN  [self EXCEPT
                !.cash = self.cash + revenue,
                !.shares = 0,
                !.avgPrice = 0,
                !.sellCount = self.sellCount + 1]
    ELSE self

\* Variant of sellAll that truncates the fee of one share and multiplies it
\* by the share count.
sellAllFeePerShare(self, price, feeRate) ==
    IF self.shares > 0
    THEN LET revenue == price * self.shares
             fee == MulTrunc(price, feeRate) * self.shares
         IN  [self EXCEPT
                !.cash = self.cash + (revenue - fee),
                !.shares = 0,
                !.avgPrice = 0,
                !.sellCount = self.sellCount + 1]
    ELSE self

\* TradingStrategy::sellAll: the object after the call.
sellAll(self, price, feeRate) ==
    IF self.shares > 0
    THEN LET revenue == price * self.shares
             fee == MulTrunc(revenue, feeRate)
         IN  [self EXCEPT
                !.cash = self.cash + (revenue - fee),
                !.shares = 0,
                !.avgPrice = 0,
                !.sellCount = self.sellCount + 1]
    ELSE self

\* TradingStrategy::recordEquity: the object after the call.
recordEquity(self, price) ==
    [self EXCEPT !.equityHistory = Append(@, getTotalValue(self, price))]

\* ------------------------------------------------------------ strategies
\* Merge of the base members with a derived class's own members.
Derive(base, own) ==
    [f \in (DOMAIN base) \cup (DOMAIN own) |->
        IF f \in DOMAIN own THEN own[f] ELSE base[f]]

\* PanicSellStrategy's constructor.
NewPanicSell(initCash, threshold, fee) ==
    Derive(BaseInit("Panic Seller", initCash),
           [kind |-> "PanicSell", stopLossRate |-> threshold,
            feeRate |-> fee, hasBought |-> FALSE])

\* DCAStrategy's constructor.
NewDCA(initCash, dropRate, interval, ratio, fee) ==
    Derive(BaseInit("DCA", initCash),
           [kind |-> "DCA", dcaDropRate |-> dropRate, dcaInterval |-> interval,
            buyRatio |-> ratio, feeRate |-> fee,
            lastBuyIndex |-> -1, lastBuyPrice |-> 0])

\* HoldStrategy's constructor.
NewHold(initCash, ratio, fee) ==
    Derive(BaseInit("Holder", initCash),
           [kind |-> "Hold", initialBuyRatio |-> ratio,
            feeRate |-> fee, hasBought |-> FALSE])

\* Variant of PanicSellTrade whose stop-loss test is strict (<).
PanicSellTradeStrict(self, idx, price, changeRate) ==
    IF ~self.hasBought /\ self.cash >= price
    THEN LET qty == TruncDiv(self.cash, price + MulTrunc(price, self.feeRate))
         IN  IF qty > 0
             THEN [buy(self, price, qty, self.feeRate) EXCEPT !.hasBought = TRUE]
             ELSE self
    ELSE IF self.shares > 0 /\ self.avgPrice > 0
    THEN IF (price - self.avgPrice) * self.stopLossRate.den
               < self.stopLossRate.num * self.avgPrice
         THEN sellAll(self, price, self.feeRate)
         ELSE self
    ELSE self

\* Variant of PanicSellTrade that enters whenever it holds no share, the
\* hasBought flag not consulted.
PanicSellTradeReenter(self, idx, price, changeRate) ==
    IF self.shares = 0 /\ self.cash >= price
    THEN LET qty == TruncDiv(self.cash, price + MulTrunc(price, self.feeRate))
         IN  IF qty > 0
             THEN [buy(self, price, qty, self.feeRate) EXCEPT !.hasBought = TRUE]
             ELSE self
    ELSE IF self.shares > 0 /\ self.avgPrice > 0
    THEN IF RatioLeq(price - self.avgPrice, self.avgPrice, self.stopLossRate)
         THEN sellAll(self, price, self.feeRate)
         ELSE self
    ELSE self

\* PanicSellStrategy::onPrice, up to its recordEquity: the trade of the tick.
PanicSellTrade(self, idx, price, changeRate) ==
    IF ~self.hasBought /\ self.cash >= price
    THEN LET qty == TruncDiv(self.cash, price + MulTrunc(price, self.feeRate))
         IN  IF qty > 0
             THEN [buy(self, price, qty, self.feeRate) EXCEPT !.hasBought = TRUE]
             ELSE self
    ELSE IF self.shares > 0 /\ self.avgPrice > 0
    THEN IF RatioLeq(price - self.avgPrice, self.avgPrice, self.stopLossRate)
         THEN sellAll(self, price, self.feeRate)
         ELSE self
    ELSE self

\* PanicSellStrategy::onPrice
PanicSellOnPrice(self, idx, price, changeRate) ==
    recordEquity(PanicSellTrade(self, idx, price, changeRate), price)

\* Variant of DCAShouldBuy that buys on every tick the cash covers a share.
DCAShouldBuyAlways(self, idx, price) == self.cash >= price

\* DCAStrategy::onPrice: the value of shouldBuy.
DCAShouldBuy(self, idx, price) ==
    IF self.lastBuyIndex < 0 /\ self.cash >= price
    THEN TRUE
    ELSE IF self.cash >= price
    THEN LET intervalMet == (idx - self.lastBuyIndex) >= self.dcaInterval
             dropMet == self.lastBuyPrice > 0
                        /\ RatioLeq(price - self.lastBuyPrice,
                                    self.lastBuyPrice, self.dcaDropRate)
         IN  intervalMet \/ dropMet
    ELSE FALSE

\* DCAStrategy::onPrice: the quantity computed once shouldBuy holds.
DCAQty(self, price) ==
    LET ratioAmount == MulTrunc(self.cash, self.buyRatio)
        buyAmount == IF ratioAmount < price THEN self.cash ELSE ratioAmount
    IN  TruncDiv(buyAmount, price + MulTrunc(price, self.feeRate))

\* DCAStrategy::onPrice, up to its recordEquity: the trade of the tick.
DCATrade(self, idx, price, changeRate) ==
    IF DCAShouldBuy(self, idx, price)
    THEN LET qty == DCAQty(self, price)
         IN  IF qty > 0
             THEN [buy(self, price, qty, self.feeRate) EXCEPT
                      !.lastBuyIndex = idx, !.lastBuyPrice = price]
             ELSE self
    ELSE self

\* DCAStrategy::onPrice
DCAOnPrice(self, idx, price, changeRate) ==
    recordEquity(DCATrade(self, idx, price, changeRate), price)

\* Variant of HoldTrade that does not remember its purchase.
HoldTradeForgetful(self, idx, price, changeRate) ==
    IF self.cash >= price
    THEN LET buyAmount == MulTrunc(self.cash, self.initialBuyRatio)
             qty == TruncDiv(buyAmount, price + MulTrunc(price, self.feeRate))
         IN  IF qty > 0
             THEN buy(self, price, qty, self.feeRate)
             ELSE self
    ELSE self

\* HoldStrategy::onPrice, up to its recordEquity: the trade of the tick.
HoldTrade(self, idx, price, changeRate) ==
    IF ~self.hasBought /\ self.cash >= price
    THEN LET buyAmount == MulTrunc(self.cash, self.initialBuyRatio)
             qty == TruncDiv(buyAmount, price + MulTrunc(price, self.feeRate))
         IN  IF qty > 0
             THEN [buy(self, price, qty, self.feeRate) EXCEPT !.hasBought = TRUE]
             ELSE self
    ELSE self

\* Variant of HoldOnPrice that returns early, recording nothing, once the
\* purchase is made.
HoldOnPriceEarlyReturn(self, idx, price, changeRate) ==
    IF self.hasBought THEN self
    ELSE recordEquity(HoldTrade(self, idx, price, changeRate), price)

\* HoldStrategy::onPrice
HoldOnPrice(self, idx, price, changeRate) ==
    recordEquity(HoldTrade(self, idx, price, changeRate), price)

\* The virtual call s->onPrice(idx, price, changeRate).
onPrice(self, idx, price, changeRate) ==
    CASE self.kind = "PanicSell" -> PanicSellOnPrice(self, idx, price, changeRate)
      [] self.kind = "DCA" -> DCAOnPrice(self, idx, price, changeRate)
      [] self.kind = "Hold" -> HoldOnPrice(self, idx, price, changeRate)

\* The virtual call s->onFinish(lastPrice): no strategy overrides the
\* empty TradingStrategy::onFinish.
onFinish(self, lastPrice) == self

\* ------------------------------------------------------------ BacktestEngine
\* (double)a / b: a fraction with a positive denominator; a denominator of
\* 0 stands for the IEEE results of dividing by zero (num > 0: +inf,
\* num < 0: -inf, num = 0: NaN).
DoubleDiv(a, b) ==
    IF b > 0 THEN Frac(a, b)
    ELSE IF b < 0 THEN Frac(-a, -b)
    ELSE Frac(IF a > 0 THEN 1 ELSE IF a < 0 THEN -1 ELSE 0, 0)

\* Variant of MDDLoop that keeps the latest drawdown, not the largest.
RECURSIVE MDDLoopLatest(_, _, _, _)
MDDLoopLatest(history, n, peak, maxDD) ==
    IF n > Len(history) THEN maxDD
    ELSE LET equity == history[n]
             newPeak == IF equity > peak THEN equity ELSE peak
             dd == Frac(newPeak - equity, newPeak)
             newMax == IF newPeak > 0 THEN dd ELSE maxDD
         IN  MDDLoopLatest(history, n + 1, newPeak, newMax)

\* The loop of calculateMDD over history[n..]: the final maxDD.
RECURSIVE MDDLoop(_, _, _, _)
MDDLoop(history, n, peak, maxDD) ==
    IF n > Len(history) THEN maxDD
    ELSE LET equity == history[n]
             newPeak == IF equity > peak THEN equity ELSE peak
             dd == Frac(newPeak - equity, newPeak)
             newMax == IF newPeak > 0 /\ FracLess(maxDD, dd) THEN dd ELSE maxDD
         IN  MDDLoop(history, n + 1, newPeak, newMax)

\* BacktestEngine::calculateMDD: the percentage, as a fraction.
calculateMDD(history) ==
    IF Len(history) = 0 THEN Frac(0, 1)
    ELSE LET maxDD == MDDLoop(history, 1, 0, Frac(0, 1))
         IN  Frac(maxDD.num * 100, maxDD.den)

\* BacktestEngine::buildReport
buildReport(cfg, s, lastPrice) ==
    LET finalEquity == getTotalValue(s, lastPrice)
        ratio == DoubleDiv(finalEquity - cfg.initialCash, cfg.initialCash)
    IN  [strategyName |-> s.name,
         initialCash |-> cfg.initialCash,
         finalEquity |-> finalEquity,
         totalReturn |-> Frac(ratio.num * 100, ratio.den),
         maxDrawdown |-> calculateMDD(s.equityHistory),
         buyCount |-> s.buyCount,
         sellCount |-> s.sellCount,
         finalShares |-> s.shares,
         avgPrice |-> s.avgPrice]

\* ------------------------------------------------------------ BacktestReport
\* swap(ranked[a], ranked[b])
Swap(ranked, a, b) == [ranked EXCEPT ![a] = ranked[b], ![b] = ranked[a]]

\* printRanking: the inner loop of the sort from position j (counted from
\* 1) to position last, comparing each element with its right neighbour.
RECURSIVE BubblePass(_, _, _)
BubblePass(ranked, j, last) ==
    IF j > last THEN ranked
    ELSE BubblePass(
             IF FracLess(ranked[j].totalReturn, ranked[j + 1].totalReturn)
             THEN Swap(ranked, j, j + 1) ELSE ranked,
             j + 1, last)

\* printRanking: the outer loop of the sort from pass n (counted from 0).
RECURSIVE BubbleSort(_, _)
BubbleSort(ranked, n) ==
    IF n >= Len(ranked) THEN ranked
    ELSE BubbleSort(BubblePass(ranked, 1, Len(ranked) - 1 - n), n + 1)

\* printRanking: the ranked copy of the results.
sortRanking(rs) == BubbleSort(rs, 0)

\* printRanking's last line reads ranked[0]. On an empty list that read is
\* out of bounds: the build may crash there or print what it finds.
WinnerOutcomes(ranked) ==
    IF ranked = <<>> THEN {"<crash>", "<garbage>"}
    ELSE {ranked[1].strategyName}

\* The positions (counted from 0) of the ranked list that printRanking
\* reads: every position below its size in the sort and the ranking line,
\* and position 0 in the winner line, whatever the size.
AccessedIndexes(ranked) == {m - 1 : m \in 1..Len(ranked)} \cup {0}

\* ------------------------------------------------------------ double
\* The arithmetic of `double` (IEEE 754 binary64, round to nearest, ties
\* to even) where its rounding shows: in a price drawn by
\* Market::simulatePriceChange and in the difference getSummaryComment
\* prints. A significand has 53 bits, more than an integer here holds, so
\* it is kept as a big natural: a sequence of limbs, each below Limb, the
\* least significant first and the most significant not 0 (0 is <<>>).
Limb == 32768

Sign(n) == IF n > 0 THEN 1 ELSE IF n < 0 THEN -1 ELSE 0

RECURSIVE BigNorm(_)
BigNorm(a) ==
    IF a # <<>> /\ a[Len(a)] = 0 THEN BigNorm(SubSeq(a, 1, Len(a) - 1))
    ELSE a

\* The big natural of an integer n >= 0, and back.
RECURSIVE BigOf(_)
BigOf(n) == IF n = 0 THEN <<>> ELSE <<n % Limb>> \o BigOf(n \div Limb)

RECURSIVE BigToInt(_)
BigToInt(a) == IF a = <<>> THEN 0 ELSE a[1] + Limb * BigToInt(Tail(a))

LimbAt(a, j) == IF j <= Len(a) THEN a[j] ELSE 0

RECURSIVE BigAddFrom(_, _, _, _)
BigAddFrom(a, b, j, carry) ==
    IF j > Len(a) /\ j > Len(b) THEN BigOf(carry)
    ELSE LET t == LimbAt(a, j) + LimbAt(b, j) + carry
         IN  <<t % Limb>> \o BigAddFrom(a, b, j + 1, t \div Limb)

BigAdd(a, b) == BigAddFrom(a, b, 1, 0)

RECURSIVE BigSubFrom(_, _, _, _)
BigSubFrom(a, b, j, borrow) ==
    IF j > Len(a) THEN <<>>
    ELSE LET t == LimbAt(a, j) - LimbAt(b, j) - borrow
         IN  <<IF t < 0 THEN t + Limb ELSE t>>
             \o BigSubFrom(a, b, j + 1, IF t < 0 THEN 1 ELSE 0)

\* a - b for a >= b
BigSub(a, b) == BigNorm(BigSubFrom(a, b, 1, 0))

RECURSIVE BigCmpFrom(_, _, _)
BigCmpFrom(a, b, j) ==
    IF j = 0 THEN 0
    ELSE IF a[j] # b[j] THEN Sign(a[j] - b[j])
    ELSE BigCmpFrom(a, b, j - 1)

\* -1, 0 or 1 as a is below, equal to or above b
BigCmp(a, b) ==
    IF Len(a) # Len(b) THEN Sign(Len(a) - Len(b))
    ELSE BigCmpFrom(a, b, Len(a))

RECURSIVE BigMulFrom(_, _, _, _)
BigMulFrom(a, m, j, carry) ==
    IF j > Len(a) THEN BigOf(carry)
    ELSE LET t == a[j] * m + carry
         IN  <<t % Limb>> \o BigMulFrom(a, m, j + 1, t \div Limb)

\* a * m for 0 <= m < 2 * Limb
BigMulLimb(a, m) == BigNorm(BigMulFrom(a, m, 1, 0))

\* a * m for an integer m >= 0
RECURSIVE BigMul(_, _)
BigMul(a, m) ==
    IF m < Limb THEN BigMulLimb(a, m)
    ELSE BigAdd(BigMulLimb(a, m % Limb),
                BigNorm(<<0>> \o BigMul(a, m \div Limb)))

\* a * 2^s
BigShl(a, s) ==
    IF a = <<>> THEN <<>>
    ELSE [j \in 1..(s \div 15) |-> 0] \o BigMulLimb(a, 2^(s % 15))

RECURSIVE BigHalveFrom(_, _, _, _)
BigHalveFrom(a, d, j, rem) ==
    IF j = 0 THEN <<>>
    ELSE LET t == rem * Limb + a[j]
         IN  BigHalveFrom(a, d, j - 1, t % d) \o <<t \div d>>

\* floor(a / 2^s)
BigShr(a, s) ==
    LET whole == s \div 15
        kept == IF whole >= Len(a) THEN <<>>
                ELSE SubSeq(a, whole + 1, Len(a))
    IN  BigNorm(BigHalveFrom(kept, 2^(s % 15), Len(kept), 0))

RECURSIVE BitsOf(_)
BitsOf(n) == IF n = 0 THEN 0 ELSE 1 + BitsOf(n \div 2)

\* The number of bits of a
BigBits(a) == IF a = <<>> THEN 0 ELSE 15 * (Len(a) - 1) + BitsOf(a[Len(a)])

\* floor(a / 2^s) rounded to the nearest integer to a / 2^s, ties to even
BigShrNearest(a, s) ==
    LET q == BigShr(a, s)
        rest == BigSub(a, BigShl(q, s))
        half == BigCmp(BigShl(rest, 1), BigShl(<<1>>, s))
    IN  IF half > 0 \/ (half = 0 /\ LimbAt(q, 1) % 2 = 1)
        THEN BigAdd(q, <<1>>) ELSE q

\* A finite double: sign * m * 2^e with m of 53 bits, or 0.
Zero == [sign |-> 0, m |-> <<>>, e |-> 0]

\* The double nearest to sign * m * 2^e, ties to even (no exponent here
\* is near the ends of the range of a double).
Binary64(sign, m, e) ==
    IF m = <<>> \/ sign = 0 THEN Zero
    ELSE LET bits == BigBits(m)
         IN  IF bits <= 53
             THEN [sign |-> sign, m |-> BigShl(m, 53 - bits),
                   e |-> e - (53 - bits)]
             ELSE LET r == BigShrNearest(m, bits - 53)
                  IN  IF BigBits(r) > 53
                      THEN [sign |-> sign, m |-> BigShr(r, 1),
                            e |-> e + (bits - 53) + 1]
                      ELSE [sign |-> sign, m |-> r, e |-> e + (bits - 53)]

\* (double)n
FromInt(n) == Binary64(Sign(n), BigOf(Abs(n)), 0)

\* The next bits limbs' worth of the binary expansion of r / c, for
\* 0 <= r < c < 2^30: 15 bits a limb, the first limb the most significant.
RECURSIVE QuotientLimb(_, _, _, _)
QuotientLimb(r, c, bits, limb) ==
    IF bits = 0 THEN [limb |-> limb, rem |-> r]
    ELSE LET t == 2 * r
         IN  IF t >= c THEN QuotientLimb(t - c, c, bits - 1, 2 * limb + 1)
             ELSE QuotientLimb(t, c, bits - 1, 2 * limb)

RECURSIVE QuotientLimbs(_, _, _)
QuotientLimbs(r, c, limbs) ==
    IF limbs = 0 THEN [m |-> <<>>, rem |-> r]
    ELSE LET first == QuotientLimb(r, c, 15, 0)
             rest == QuotientLimbs(first.rem, c, limbs - 1)
         IN  [m |-> rest.m \o <<first.limb>>, rem |-> rest.rem]

\* (double)n / c for integers n and 0 < c < 2^30: the quotient to 90 bits
\* after the point and one more bit that says whether anything is left.
Quotient(n, c) ==
    LET a == Abs(n)
        frac == QuotientLimbs(a % c, c, 6)
        m == BigNorm(frac.m \o BigOf(a \div c))
        sticky == IF frac.rem = 0 THEN <<>> ELSE <<1>>
    IN  Binary64(Sign(n), BigAdd(BigShl(m, 1), sticky), -91)

\* x * n for a double x and an integer n
Times(x, n) == Binary64(x.sign * Sign(n), BigMul(x.m, Abs(n)), x.e)

\* x + y
Plus(x, y) ==
    IF x.sign = 0 THEN y
    ELSE IF y.sign = 0 THEN x
    ELSE LET e == IF x.e < y.e THEN x.e ELSE y.e
             a == BigShl(x.m, x.e - e)
             b == BigShl(y.m, y.e - e)
             c == BigCmp(a, b)
         IN  IF x.sign = y.sign THEN Binary64(x.sign, BigAdd(a, b), e)
             ELSE IF c = 0 THEN Zero
             ELSE IF c > 0 THEN Binary64(x.sign, BigSub(a, b), e)
             ELSE Binary64(y.sign, BigSub(b, a), e)

\* x - y
Minus(x, y) == Plus(x, [y EXCEPT !.sign = -@])

\* (int)x
Truncated(x) ==
    x.sign * BigToInt(IF x.e >= 0 THEN BigShl(x.m, x.e)
                      ELSE BigShr(x.m, -x.e))

\* A double x >= 0 as `fixed << setprecision(2)` prints it, in hundredths:
\* its exact value rounded to the nearest hundredth, ties to even.
Fixed2(x) ==
    LET hundredfold == BigMul(x.m, 100)
    IN  BigToInt(IF x.e >= 0 THEN BigShl(hundredfold, x.e)
                 ELSE BigShrNearest(hundredfold, -x.e))

\* name.find(word) != string::npos for the two words getSummaryComment
\* looks for, the nicknames of the panic and DCA strategies (written here
\* in Latin letters). The model's names leave the nicknames out; of the
\* names the strategies are constructed with, only PanicSellStrategy's
\* holds the first word and only DCAStrategy's the second.
NameHas(name, word) ==
    \/ word = "Jjolbo" /\ name = "Panic Seller"
    \/ word = "Coach" /\ name = "DCA"

IsPanicName(name) == NameHas(name, "Jjolbo")
IsDCAName(name) == NameHas(name, "Coach")

\* The value an index variable of getSummaryComment's search loop ends
\* with: the last position (counted from 0) whose name holds the word, or
\* -1.
LastIndexOf(rs, word) ==
    LET found == {n \in 1..Len(rs) : NameHas(rs[n].strategyName, word)}
    IN  IF found = {} THEN -1
        ELSE (CHOOSE n \in found : \A m \in found : m <= n) - 1

\* The percentage buildReport stores, held as the fraction 100 * a / b of
\* its operands, as the double it is: (double)a / b * 100.0, for b > 0.
PercentDouble(pct) == Times(Quotient(pct.num \div 100, pct.den), 100)

\* The percentage buildReport stores for an initial cash of 0 (the
\* fraction's denominator is 0): a division by 0.0.
NonFinite(pct) ==
    IF pct.den # 0 THEN "finite"
    ELSE IF pct.num > 0 THEN "inf" ELSE IF pct.num < 0 THEN "-inf" ELSE "nan"

\* dca - panic where one of the two is not finite.
NonFiniteDiff(dca, panic) ==
    IF dca = "nan" \/ panic = "nan" \/ dca = panic THEN "nan"
    ELSE IF dca = "inf" \/ panic = "-inf" THEN "inf" ELSE "-inf"

\* The texts getSummaryComment returns, named by what they say; the first
\* template carries the difference as `fixed << setprecision(2)` prints
\* it, in hundredths, and the second is the first for a difference that is
\* infinite.
TooFewResults == [text |-> "insufficient results"]
NoComparable == [text |-> "no comparable strategies"]
DCAHigher(diff) == [text |-> "DCA higher by", diff |-> Fixed2(diff)]
DCAHigherInf == [text |-> "DCA higher by", printed |-> "inf"]
StopLossBetter == [text |-> "stop-loss better this time"]

\* getSummaryComment from `double diff = dcaReturn - panicReturn` on: a
\* comparison with a NaN is false.
CompareReturns(dcaReturn, panicReturn) ==
    IF dcaReturn.den = 0 \/ panicReturn.den = 0
    THEN IF NonFiniteDiff(NonFinite(dcaReturn), NonFinite(panicReturn)) = "inf"
         THEN DCAHigherInf ELSE StopLossBetter
    ELSE LET diff == Minus(PercentDouble(dcaReturn),
                           PercentDouble(panicReturn))
         IN  IF diff.sign > 0 THEN DCAHigher(diff) ELSE StopLossBetter

\* Variant of getSummaryComment that takes the first two reports for the
\* panic and DCA ones, as registered by main, without looking at names.
getSummaryCommentByPosition(rs) ==
    IF Len(rs) < 2 THEN TooFewResults
    ELSE CompareReturns(rs[2].totalReturn, rs[1].totalReturn)

\* BacktestReport::getSummaryComment
getSummaryComment(rs) ==
    IF Len(rs) < 2 THEN TooFewResults
    ELSE LET panicIdx == LastIndexOf(rs, "Jjolbo")
             dcaIdx == LastIndexOf(rs, "Coach")
         IN  IF panicIdx = -1 \/ dcaIdx = -1 THEN NoComparable
             ELSE CompareReturns(rs[dcaIdx + 1].totalReturn,
                                 rs[panicIdx + 1].totalReturn)

\* ------------------------------------------------------------ Account
\* The largest power of two strictly below n, for n >= 2: the doubles just
\* below n are spaced at this value times 2^-52.
RECURSIVE BinadeBelow(_)
BinadeBelow(n) == IF n <= 2 THEN 1 ELSE 2 * BinadeBelow((n + 1) \div 2)

\* (int)(total * DEFAULT_FEE_RATE) for 0 <= total < 2^31. The double 0.00015
\* is 5534023222112865 / 2^65, which is 9696 / (20000 * 2^65) below 3/20000.
\* Where 3 * total / 20000 is a whole number K, the exact product is
\* K * 9696 / (3 * 2^65) below K, and it rounds to the double K when that is
\* less than half the spacing of the doubles below K, which is to say when
\* 101 * K < 128 * BinadeBelow(K); otherwise the product stays below K and
\* the conversion truncates it to K - 1. Everywhere else the conversion
\* gives the floor of 3 * total / 20000.
DefaultFee(total) ==
    LET q == total \div 20000
        s == total % 20000
        K == 3 * q + (3 * s) \div 20000
    IN  IF total > 0 /\ (3 * s) % 20000 = 0
        THEN IF 101 * K < 128 * BinadeBelow(K) THEN K ELSE K - 1
        ELSE K

\* Position::Position
NewPosition(qty, price) ==
    [quantity |-> qty, avgPrice |-> price,
     totalInvested |-> IF qty > 0 THEN qty * price ELSE 0]

\* Position::addQuantity
addQuantity(pos, qty, price) ==
    LET invested == pos.totalInvested + qty * price
        quantity == pos.quantity + qty
    IN  [quantity |-> quantity,
         avgPrice |-> IF quantity > 0 THEN TruncDiv(invested, quantity) ELSE 0,
         totalInvested |-> invested]

\* Position::reduceQuantity, for qty <= quantity: the position after it.
reduceQuantity(pos, qty) ==
    LET quantity == pos.quantity - qty
    IN  IF quantity = 0
        THEN [quantity |-> 0, avgPrice |-> 0, totalInvested |-> 0]
        ELSE [pos EXCEPT !.quantity = quantity,
                         !.totalInvested = quantity * pos.avgPrice]

\* Portfolio::addPosition: the positions map after it.
addPosition(positions, code, qty, price) ==
    IF code \in DOMAIN positions
    THEN [positions EXCEPT ![code] = addQuantity(@, qty, price)]
    ELSE [c \in DOMAIN positions \cup {code} |->
            IF c = code THEN NewPosition(qty, price) ELSE positions[c]]

\* Portfolio::reducePosition: the positions map after it.
reducePosition(positions, code, qty) ==
    IF code \notin DOMAIN positions THEN positions
    ELSE IF qty > positions[code].quantity THEN positions
    ELSE LET reduced == reduceQuantity(positions[code], qty)
         IN  IF reduced.quantity = 0
             THEN [c \in DOMAIN positions \ {code} |-> positions[c]]
             ELSE [positions EXCEPT ![code] = reduced]

\* Market::simulatePriceChange: the price it gives a stock for the rate
\* drawn, in ten-thousandths: (int)(price * (1 + rate)), at least 1.
simulatedPrice(price, rate) ==
    LET drawn == Quotient(rate, 10000)
        product == Times(Plus(FromInt(1), drawn), price)
    IN  IF Truncated(product) < 1 THEN 1 ELSE Truncated(product)

\* Order::Order. The price type, requested price and timestamp are left
\* out: nothing reads them.
NewOrder(id, code, ot, qty) ==
    [orderId |-> id, stockCode |-> code, orderType |-> ot, quantity |-> qty,
     status |-> "PENDING"]

\* Transaction::Transaction (without its timestamp and the stock's name),
\* for the stock of the code.
NewTransaction(id, order, code, execPrice) ==
    [transactionId |-> id, orderId |-> order.orderId,
     stockCode |-> code, type |-> order.orderType,
     quantity |-> order.quantity, price |-> execPrice,
     totalAmount |-> execPrice * order.quantity,
     fee |-> DefaultFee(execPrice * order.quantity)]

\* Account::Account
NewAccount(initBal) ==
    [balance |-> initBal, positions |-> <<>>, orders |-> <<>>,
     transactions |-> <<>>]

\* Account::executeOrder, the body of its loop for the order at position n
\* once the order matches: the account after it and whether it returned
\* true. FALSE for `returned` with `go` TRUE means the loop goes on.
TryOrder(acc, n, mkt, txId) ==
    LET order == acc.orders[n]
        code == order.stockCode
    IN  IF code \notin DOMAIN mkt
        THEN [account |-> acc, returned |-> FALSE, go |-> FALSE]
        ELSE
        LET currentPrice == mkt[code]
            totalCost == currentPrice * order.quantity
            fee == DefaultFee(totalCost)
            done == [acc.orders EXCEPT ![n].status = "COMPLETED"]
            tx == Append(acc.transactions,
                         NewTransaction(txId, done[n], code, currentPrice))
        IN  IF order.orderType = "BUY" /\ acc.balance >= totalCost + fee
            THEN [account |->
                    [balance |-> acc.balance - (totalCost + fee),
                     positions |-> addPosition(acc.positions, code,
                                               order.quantity, currentPrice),
                     orders |-> done, transactions |-> tx],
                  returned |-> TRUE, go |-> FALSE]
            ELSE IF /\ order.orderType = "SELL"
                    /\ code \in DOMAIN acc.positions
                    /\ acc.positions[code].quantity >= order.quantity
            THEN [account |->
                    [balance |-> acc.balance + (totalCost - fee),
                     positions |-> reducePosition(acc.positions, code,
                                                  order.quantity),
                     orders |-> done, transactions |-> tx],
                  returned |-> TRUE, go |-> FALSE]
            ELSE [account |-> acc, returned |-> FALSE, go |-> TRUE]

\* Account::executeOrder from position n of the orders on: the account
\* after the call and the value returned.
RECURSIVE ExecuteFrom(_, _, _, _, _)
ExecuteFrom(acc, n, orderId, mkt, txId) ==
    IF n > Len(acc.orders) THEN [account |-> acc, returned |-> FALSE]
    ELSE IF acc.orders[n].orderId = orderId /\ acc.orders[n].status = "PENDING"
    THEN LET tried == TryOrder(acc, n, mkt, txId)
         IN  IF tried.go
             THEN ExecuteFrom(acc, n + 1, orderId, mkt, txId)
             ELSE [account |-> tried.account, returned |-> tried.returned]
    ELSE ExecuteFrom(acc, n + 1, orderId, mkt, txId)

VARIABLES
    priceHistory,   \* Stock::priceHistory of the engine's stock
    config,         \* BacktestEngine::config
    strategies,     \* BacktestEngine::strategies: the registered objects, in order
    obj,            \* the strategy objects, by kind
    results,        \* BacktestEngine::results
    pc,             \* where runBattle stands: "idle", "ticks", "finish", "done"
    i,              \* runBattle's tick index
    k,              \* runBattle's position in strategies (1-based)
    prevPrice,      \* runBattle's prevPrice
    runs,           \* the invocations of runBattle: what each one found
    calls,          \* every call runBattle made on a strategy, in order
    lastCall,       \* the harnesses' most recent call (and, in the account
                    \* harness, how many calls the caller has made: nth)
    account,        \* the Account object
    market,         \* Market::stocks: the current price of each listed code
    nextOrderId,    \* Order::nextOrderId
    nextTransactionId,  \* Transaction::nextTransactionId
    orderObjects    \* the Order objects the caller has constructed, by id

accountVars ==
    <<account, market, nextOrderId, nextTransactionId, orderObjects>>

vars == <<priceHistory, config, strategies, obj, results, pc, i, k,
          prevPrice, runs, calls, lastCall, accountVars>>

\* The account side where it plays no part: an account as User constructs
\* it, the one stock of main at its first price, no order made yet.
AccountUntouched ==
    /\ account = NewAccount(0)
    /\ market = [c \in {"005930"} |-> 70000]
    /\ nextOrderId = 1
    /\ nextTransactionId = 1
    /\ orderObjects = <<>>

\* Stock::getPriceAt (idx is 0-based; it is a size_t, so an idx below 0
\* arrives as a huge value, beyond the history's size).
getPriceAt(idx) ==
    IF idx < 0 \/ idx >= Len(priceHistory) THEN -1 ELSE priceHistory[idx + 1]

\* Stock::getHistoryLength
getHistoryLength == Len(priceHistory)

\* Every sequence over S of length at most n.
SeqsUpTo(S, n) == UNION {[1..m -> S] : m \in 0..n}

\* DEFAULT_DCA_INTERVAL
DEFAULT_DCA_INTERVAL == 5

\* BacktestConfig cfg; cfg.initialCash = c; cfg.feeRate = f; the other
\* members keep the defaults of the constructor.
Config(c, f) ==
    [initialCash |-> c, feeRate |-> f,
     panicThreshold |-> Frac(-1, 10), dcaDropRate |-> Frac(-1, 20),
     dcaInterval |-> DEFAULT_DCA_INTERVAL, dcaBuyRatio |-> Frac(1, 4),
     holdBuyRatio |-> Frac(1, 2)]

\* cfg.dcaInterval = n; on a configuration
ConfigEvery(cfg, n) == [cfg EXCEPT !.dcaInterval = n]

\* The re-buy intervals: the default, which is longer than the histories
\* here, and 2 ticks, which elapses within them.
DCAIntervals == {2, DEFAULT_DCA_INTERVAL}

\* The configurations of the engine, the initial cash, the fee rate and the
\* interval drawn from the input sets. The smaller cashes matter for what
\* the fee makes unaffordable, so they come with the fee only, and the
\* default interval comes with cash 1000 and no fee only.
Configs ==
    {cfg \in {ConfigEvery(Config(c, f), n) :
                c \in InitialCashes, f \in FeeRates, n \in DCAIntervals} :
        /\ cfg.feeRate.num = 0 => cfg.initialCash = 1000
        /\ cfg.dcaInterval = DEFAULT_DCA_INTERVAL => cfg.feeRate.num = 0}

\* The object main constructs for each kind of strategy.
NewStrategy(kd, cfg) ==
    CASE kd = "PanicSell" ->
           NewPanicSell(cfg.initialCash, cfg.panicThreshold, cfg.feeRate)
      [] kd = "DCA" ->
           NewDCA(cfg.initialCash, cfg.dcaDropRate, cfg.dcaInterval,
                  cfg.dcaBuyRatio, cfg.feeRate)
      [] kd = "Hold" ->
           NewHold(cfg.initialCash, cfg.holdBuyRatio, cfg.feeRate)

\* A constructed engine over a stock without a price history yet, the
\* strategy objects constructed and none registered.
Init ==
    /\ priceHistory = <<>>
    /\ config \in Configs
    /\ strategies = <<>>
    /\ obj = [kd \in Kinds |-> NewStrategy(kd, config)]
    /\ results = <<>>
    /\ pc = "idle"
    /\ i = 0
    /\ k = 0
    /\ prevPrice = 0
    /\ runs = <<>>
    /\ calls = <<>>
    /\ lastCall = [op |-> "none"]
    /\ AccountUntouched

Registered == {strategies[n] : n \in 1..Len(strategies)}

\* The calls the caller has made: every price added to the history, every
\* strategy registered, every invocation of runBattle.
ClientCalls == Len(priceHistory) + Len(strategies) + Len(runs)

\* The caller is between two calls on the engine (runBattle is not
\* running) and has a call left to make.
AtCaller == pc \in {"idle", "done"} /\ ClientCalls < MaxClientCalls

\* BacktestEngine::addStrategy: the object of kind kd is appended, whether
\* or not it is registered already.
addStrategy(kd) ==
    /\ AtCaller
    /\ Len(strategies) < MaxStrategies
    /\ strategies' = Append(strategies, kd)
    /\ UNCHANGED <<priceHistory, config, obj, results, pc, i, k, prevPrice,
                   runs, calls, lastCall,
                   accountVars>>

\* Stock::addPriceHistory on the engine's stock
addPriceHistory(price) ==
    /\ AtCaller
    /\ Len(priceHistory) < MaxLen
    /\ priceHistory' = Append(priceHistory, price)
    /\ UNCHANGED <<config, strategies, obj, results, pc, i, k, prevPrice,
                   runs, calls, lastCall,
                   accountVars>>

\* What an invocation of runBattle finds: the price history, the
\* registered strategies and the calls made so far.
Invocation ==
    [history |-> priceHistory, strategies |-> strategies,
     from |-> Len(calls)]

\* Variant of runBattleEnter without the return on an empty history: the
\* tick loop is skipped (0 < len fails) and the reports are built.
runBattleEnterNoReturn ==
    /\ AtCaller
    /\ Len(runs) < MaxRuns
    /\ runs' = Append(runs, Invocation)
    /\ pc' = IF 0 < getHistoryLength THEN "ticks" ELSE "finish"
    /\ i' = 0
    /\ k' = 1
    /\ prevPrice' = getPriceAt(0)
    /\ UNCHANGED <<priceHistory, config, strategies, obj, results, calls,
                   lastCall,
                   accountVars>>

\* runBattle, from its entry to the first test of the tick loop (or its
\* return on an empty history).
runBattleEnter ==
    /\ AtCaller
    /\ Len(runs) < MaxRuns
    /\ runs' = Append(runs, Invocation)
    /\ IF getHistoryLength = 0
       THEN /\ pc' = "done"
            /\ UNCHANGED <<i, k, prevPrice,
                   accountVars>>
       ELSE /\ pc' = IF 0 < getHistoryLength THEN "ticks" ELSE "finish"
            /\ i' = 0
            /\ k' = 1
            /\ prevPrice' = getPriceAt(0)
    /\ UNCHANGED <<priceHistory, config, strategies, obj, results, calls,
                   lastCall,
                   accountVars>>

\* runBattle's changeRate at tick i.
changeRateAt(idx, price) ==
    IF idx = 0 THEN Frac(0, 1) ELSE Frac((price - prevPrice) * 100, prevPrice)

\* Variant of runBattleOnPrice in which the strategies share one equity
\* series: the tick's point is recorded on every registered strategy.
runBattleOnPriceShared ==
    /\ pc = "ticks"
    /\ k <= Len(strategies)
    /\ LET s == strategies[k]
           price == getPriceAt(i)
           changeRate == changeRateAt(i, price)
       IN  /\ obj' = [t \in Kinds |->
                        IF t = s THEN onPrice(obj[t], i, price, changeRate)
                        ELSE IF t \in Registered
                             THEN recordEquity(obj[t], price)
                             ELSE obj[t]]
           /\ calls' = Append(calls, [op |-> "onPrice", s |-> s, idx |-> i,
                                      price |-> price, changeRate |-> changeRate])
    /\ k' = k + 1
    /\ UNCHANGED <<priceHistory, config, strategies, results, pc, i,
                   prevPrice, runs, lastCall,
                   accountVars>>

\* runBattle's inner loop body: s->onPrice(i, price, changeRate).
runBattleOnPrice ==
    /\ pc = "ticks"
    /\ k <= Len(strategies)
    /\ LET s == strategies[k]
           price == getPriceAt(i)
           changeRate == changeRateAt(i, price)
       IN  /\ obj' = [obj EXCEPT ![s] = onPrice(@, i, price, changeRate)]
           /\ calls' = Append(calls, [op |-> "onPrice", s |-> s, idx |-> i,
                                      price |-> price, changeRate |-> changeRate])
    /\ k' = k + 1
    /\ UNCHANGED <<priceHistory, config, strategies, results, pc, i,
                   prevPrice, runs, lastCall,
                   accountVars>>

\* Variant of runBattleNextTick that leaves prevPrice at the first price.
runBattleNextTickStalePrev ==
    /\ pc = "ticks"
    /\ k > Len(strategies)
    /\ i' = i + 1
    /\ k' = 1
    /\ pc' = IF i + 1 < getHistoryLength THEN "ticks" ELSE "finish"
    /\ UNCHANGED <<priceHistory, config, strategies, obj, results, runs,
                   calls, lastCall, prevPrice,
                   accountVars>>

\* runBattle's outer loop: the end of tick i.
runBattleNextTick ==
    /\ pc = "ticks"
    /\ k > Len(strategies)
    /\ prevPrice' = getPriceAt(i)
    /\ i' = i + 1
    /\ k' = 1
    /\ pc' = IF i + 1 < getHistoryLength THEN "ticks" ELSE "finish"
    /\ UNCHANGED <<priceHistory, config, strategies, obj, results, runs,
                   calls, lastCall,
                   accountVars>>

\* runBattle's last loop body: s->onFinish(lastPrice) and the report.
runBattleFinish ==
    /\ pc = "finish"
    /\ k <= Len(strategies)
    /\ LET s == strategies[k]
           lastPrice == getPriceAt(getHistoryLength - 1)
           after == onFinish(obj[s], lastPrice)
       IN  /\ obj' = [obj EXCEPT ![s] = after]
           /\ results' = Append(results, buildReport(config, after, lastPrice))
           /\ calls' = Append(calls, [op |-> "onFinish", s |-> s,
                                      price |-> lastPrice])
    /\ k' = k + 1
    /\ UNCHANGED <<priceHistory, config, strategies, pc, i, prevPrice, runs,
                   lastCall,
                   accountVars>>

\* runBattle's return after the last report.
runBattleReturn ==
    /\ pc = "finish"
    /\ k > Len(strategies)
    /\ pc' = "done"
    /\ i' = 0
    /\ k' = 0
    /\ UNCHANGED <<priceHistory, config, strategies, obj, results, prevPrice,
                   runs, calls, lastCall,
                   accountVars>>

Next ==
    \/ \E kd \in Kinds : addStrategy(kd)
    \/ \E price \in Prices : addPriceHistory(price)
    \/ runBattleEnter
    \/ runBattleOnPrice
    \/ runBattleNextTick
    \/ runBattleFinish
    \/ runBattleReturn

Spec == Init /\ [][Next]_vars

\* ------------------------------------------------------------ ledger harness
\* A second specification: the protected members buy, sellAll and
\* recordEquity called directly, as a derived class may call them, in any
\* order and with any price and quantity, on one freshly constructed object.

\* How many calls have changed object s.
Ops(s) == obj[s].buyCount + obj[s].sellCount + Len(obj[s].equityHistory)

\* The harness works on one object: the others are as constructed.
Target(s) ==
    /\ Ops(s) < MaxCalls
    /\ \A t \in Kinds \ {s} : Ops(t) = 0

LedgerInit == Init

\* s->buy(price, qty, feeRate)
callBuy(s, price, qty) ==
    /\ Target(s)
    /\ obj' = [obj EXCEPT ![s] = buy(@, price, qty, @.feeRate)]
    /\ lastCall' = [op |-> "buy", s |-> s, price |-> price, qty |-> qty]
    /\ UNCHANGED <<priceHistory, config, strategies, results, pc, i, k,
                   prevPrice, runs, calls,
                   accountVars>>

\* s->sellAll(price, feeRate)
callSellAll(s, price) ==
    /\ Target(s)
    /\ obj' = [obj EXCEPT ![s] = sellAll(@, price, @.feeRate)]
    /\ lastCall' = [op |-> "sellAll", s |-> s, price |-> price]
    /\ UNCHANGED <<priceHistory, config, strategies, results, pc, i, k,
                   prevPrice, runs, calls,
                   accountVars>>

\* s->recordEquity(price)
callRecordEquity(s, price) ==
    /\ Target(s)
    /\ obj' = [obj EXCEPT ![s] = recordEquity(@, price)]
    /\ lastCall' = [op |-> "recordEquity", s |-> s, price |-> price]
    /\ UNCHANGED <<priceHistory, config, strategies, results, pc, i, k,
                   prevPrice, runs, calls,
                   accountVars>>

LedgerNext ==
    \E s \in Kinds, price \in Prices :
        \/ \E qty \in -1..MaxQty : callBuy(s, price, qty)
        \/ callSellAll(s, price)
        \/ callRecordEquity(s, price)

LedgerSpec == LedgerInit /\ [][LedgerNext]_vars

\* ---------------------------------------------------------- analyzer harness
\* A third specification: the private members calculateMDD and buildReport
\* of BacktestEngine called directly, on an engine whose strategies are as
\* constructed. The configured initial cash may be 0 here.
AnalyzerInit ==
    /\ priceHistory = <<>>
    /\ config \in Configs \cup {Config(0, Frac(0, 1))}
    /\ strategies = <<>>
    /\ obj = [kd \in Kinds |-> NewStrategy(kd, config)]
    /\ results = <<>>
    /\ pc = "idle"
    /\ i = 0
    /\ k = 0
    /\ prevPrice = 0
    /\ runs = <<>>
    /\ calls = <<>>
    /\ lastCall = [op |-> "none"]
    /\ AccountUntouched

\* calculateMDD(history)
callCalculateMDD(history) ==
    /\ lastCall' = [op |-> "calculateMDD", history |-> history,
                    result |-> calculateMDD(history)]
    /\ UNCHANGED <<priceHistory, config, strategies, obj, results, pc, i, k,
                   prevPrice, runs, calls,
                   accountVars>>

\* buildReport(s, lastPrice)
callBuildReport(s, lastPrice) ==
    /\ lastCall' = [op |-> "buildReport", s |-> s, lastPrice |-> lastPrice,
                    result |-> buildReport(config, obj[s], lastPrice)]
    /\ UNCHANGED <<priceHistory, config, strategies, obj, results, pc, i, k,
                   prevPrice, runs, calls,
                   accountVars>>

AnalyzerNext ==
    \/ \E history \in SeqsUpTo(EquityValues, MaxHist) :
          callCalculateMDD(history)
    \/ \E s \in Kinds, lastPrice \in Prices : callBuildReport(s, lastPrice)

AnalyzerSpec == AnalyzerInit /\ [][AnalyzerNext]_vars

\* ------------------------------------------------------------ report harness
\* A fourth specification: a BacktestReport over a list of reports such as
\* an engine with initial cash 1000, 224 or 0 builds; a strategy may have
\* been registered more than once.
ReportAt(cash, kd, equity) ==
    LET cfg == Config(cash, Frac(0, 1))
    IN  buildReport(cfg, [NewStrategy(kd, cfg) EXCEPT !.cash = equity], 100)

ReportOf(kd, equity) == ReportAt(1000, kd, equity)

Reports(cash) ==
    {ReportAt(cash, kd, equity) :
       kd \in Kinds,
       equity \in IF cash = 1000 THEN FinalEquities
                  ELSE IF cash = 224 THEN LowEquities ELSE OwnEquities}

ReportInit ==
    /\ priceHistory = <<>>
    /\ config \in {Config(cash, Frac(0, 1)) : cash \in ReportCashes}
    /\ strategies = <<>>
    /\ obj = [kd \in Kinds |-> NewStrategy(kd, config)]
    /\ results \in SeqsUpTo(Reports(config.initialCash), MaxReports)
    /\ pc = "idle"
    /\ i = 0
    /\ k = 0
    /\ prevPrice = 0
    /\ runs = <<>>
    /\ calls = <<>>
    /\ lastCall = [op |-> "none"]
    /\ AccountUntouched

\* printRanking(): the ranked copy it prints and the winner it names.
callPrintRanking ==
    /\ \E winner \in WinnerOutcomes(sortRanking(results)) :
          lastCall' = [op |-> "printRanking", ranked |-> sortRanking(results),
                       accessed |-> AccessedIndexes(sortRanking(results)),
                       winner |-> winner]
    /\ UNCHANGED <<priceHistory, config, strategies, obj, results, pc, i, k,
                   prevPrice, runs, calls,
                   accountVars>>

\* getSummaryComment()
callGetSummaryComment ==
    /\ lastCall' = [op |-> "getSummaryComment",
                    result |-> getSummaryComment(results)]
    /\ UNCHANGED <<priceHistory, config, strategies, obj, results, pc, i, k,
                   prevPrice, runs, calls,
                   accountVars>>

ReportNext ==
    \/ callPrintRanking
    \/ callGetSummaryComment

ReportSpec == ReportInit /\ [][ReportNext]_vars

\* ------------------------------------------------------------ account harness
\* A fifth specification: the public members of Account, Order,
\* Transaction, Portfolio, Position, Market and Stock that change what the
\* account's members read, called in any order, on one account and a
\* market that lists the stock of main. The caller constructs Order
\* objects, may cancel or execute them itself, and places copies of them
\* on the account, any of them any number of times; it constructs
\* Transaction objects of its own, and reaches the positions of the
\* portfolio through Portfolio::getPosition. A stock's previous price and
\* price history are left out: no member of the account reads them.
AccountInit ==
    /\ priceHistory = <<>>
    /\ config = Config(1000, Frac(0, 1))
    /\ strategies = <<>>
    /\ obj = [kd \in Kinds |-> NewStrategy(kd, config)]
    /\ results = <<>>
    /\ pc = "idle"
    /\ i = 0
    /\ k = 0
    /\ prevPrice = 0
    /\ runs = <<>>
    /\ calls = <<>>
    /\ lastCall = [op |-> "none", nth |-> 0]
    /\ account \in {NewAccount(b) : b \in Balances}
    /\ market \in [{"005930"} -> ListedPrices]
    /\ nextOrderId = 1
    /\ nextTransactionId = 1
    /\ orderObjects = <<>>

\* The caller has a call left to make.
CallLeft == lastCall.nth < MaxAccountCalls

\* What the account actions leave alone on the engine's side.
engineVars ==
    <<priceHistory, config, strategies, obj, results, pc, i, k, prevPrice,
      runs, calls>>

\* Order order(code, ot, MARKET, 0, qty)
constructOrder(code, ot, qty) ==
    /\ CallLeft
    /\ Len(orderObjects) < MaxOrders
    /\ orderObjects' = Append(orderObjects, NewOrder(nextOrderId, code, ot, qty))
    /\ nextOrderId' = nextOrderId + 1
    /\ lastCall' = [op |-> "Order", nth |-> lastCall.nth + 1,
                    orderId |-> nextOrderId]
    /\ UNCHANGED <<engineVars, account, market, nextTransactionId>>

\* order.cancel() on the caller's object n
cancel(n) ==
    /\ CallLeft
    /\ orderObjects' = [orderObjects EXCEPT ![n].status = "CANCELLED"]
    /\ lastCall' = [op |-> "cancel", nth |-> lastCall.nth + 1,
                    orderId |-> orderObjects[n].orderId]
    /\ UNCHANGED <<engineVars, account, market, nextOrderId,
                   nextTransactionId>>

\* order.execute() on the caller's object n
execute(n) ==
    /\ CallLeft
    /\ orderObjects' = [orderObjects EXCEPT ![n].status = "COMPLETED"]
    /\ lastCall' = [op |-> "execute", nth |-> lastCall.nth + 1,
                    orderId |-> orderObjects[n].orderId]
    /\ UNCHANGED <<engineVars, account, market, nextOrderId,
                   nextTransactionId>>

\* account.placeOrder(order) with the caller's object n: a copy of it, as
\* it is now, joins the account's orders.
placeOrder(n) ==
    /\ CallLeft
    /\ Len(account.orders) < MaxOrders
    /\ account' = [account EXCEPT !.orders = Append(@, orderObjects[n])]
    /\ lastCall' = [op |-> "placeOrder", nth |-> lastCall.nth + 1,
                    orderId |-> orderObjects[n].orderId]
    /\ UNCHANGED <<engineVars, market, nextOrderId, nextTransactionId,
                   orderObjects>>

\* account.executeOrder(orderId, market)
executeOrder(orderId) ==
    /\ CallLeft
    /\ LET r == ExecuteFrom(account, 1, orderId, market, nextTransactionId)
       IN  /\ account' = r.account
           /\ nextTransactionId' =
                 IF r.returned THEN nextTransactionId + 1
                 ELSE nextTransactionId
           /\ lastCall' = [op |-> "executeOrder", nth |-> lastCall.nth + 1,
                           orderId |-> orderId,
                           returned |-> r.returned]
    /\ UNCHANGED <<engineVars, market, nextOrderId, orderObjects>>

\* account.deposit(amount)
deposit(amount) ==
    /\ CallLeft
    /\ account.balance + amount <= MaxBalance
    /\ account' = [account EXCEPT
                     !.balance = IF amount > 0 THEN @ + amount ELSE @]
    /\ lastCall' = [op |-> "deposit", nth |-> lastCall.nth + 1,
                    amount |-> amount]
    /\ UNCHANGED <<engineVars, market, nextOrderId, nextTransactionId,
                   orderObjects>>

\* account.withdraw(amount)
withdraw(amount) ==
    /\ CallLeft
    /\ account.balance - amount <= MaxBalance
    /\ account' = [account EXCEPT
                     !.balance = IF @ >= amount THEN @ - amount ELSE @]
    /\ lastCall' = [op |-> "withdraw", nth |-> lastCall.nth + 1,
                    amount |-> amount,
                    returned |-> account.balance >= amount]
    /\ UNCHANGED <<engineVars, market, nextOrderId, nextTransactionId,
                   orderObjects>>

\* account.getPortfolio().addPosition(stock, qty, price) with the stock of
\* the code
portfolioAddPosition(code, qty, price) ==
    /\ CallLeft
    /\ (IF code \in DOMAIN account.positions
        THEN account.positions[code].quantity ELSE 0) + qty <= MaxHeld
    /\ account' = [account EXCEPT
                     !.positions = addPosition(@, code, qty, price)]
    /\ lastCall' = [op |-> "addPosition", nth |-> lastCall.nth + 1,
                    code |-> code, qty |-> qty,
                    price |-> price]
    /\ UNCHANGED <<engineVars, market, nextOrderId, nextTransactionId,
                   orderObjects>>

\* account.getPortfolio().reducePosition(code, qty)
portfolioReducePosition(code, qty) ==
    /\ CallLeft
    /\ account' = [account EXCEPT !.positions = reducePosition(@, code, qty)]
    /\ lastCall' = [op |-> "reducePosition", nth |-> lastCall.nth + 1,
                    code |-> code, qty |-> qty,
                    returned |-> /\ code \in DOMAIN account.positions
                                 /\ qty <= account.positions[code].quantity]
    /\ UNCHANGED <<engineVars, market, nextOrderId, nextTransactionId,
                   orderObjects>>

\* account.getPortfolio().getPosition(code)->addQuantity(qty, price), for
\* a code getPosition finds (it returns nullptr for the others)
positionAddQuantity(code, qty, price) ==
    /\ CallLeft
    /\ code \in DOMAIN account.positions
    /\ account.positions[code].quantity + qty <= MaxHeld
    /\ account' = [account EXCEPT
                     !.positions[code] = addQuantity(@, qty, price)]
    /\ lastCall' = [op |-> "addQuantity", nth |-> lastCall.nth + 1,
                    code |-> code, qty |-> qty,
                    price |-> price]
    /\ UNCHANGED <<engineVars, market, nextOrderId, nextTransactionId,
                   orderObjects>>

\* account.getPortfolio().getPosition(code)->reduceQuantity(qty), for a
\* code getPosition finds: a position reduced to 0 stays in the portfolio.
positionReduceQuantity(code, qty) ==
    /\ CallLeft
    /\ code \in DOMAIN account.positions
    /\ account' = [account EXCEPT
                     !.positions[code] =
                        IF qty > @.quantity THEN @
                        ELSE reduceQuantity(@, qty)]
    /\ lastCall' = [op |-> "reduceQuantity", nth |-> lastCall.nth + 1,
                    code |-> code, qty |-> qty,
                    returned |-> qty <= account.positions[code].quantity]
    /\ UNCHANGED <<engineVars, market, nextOrderId, nextTransactionId,
                   orderObjects>>

\* Transaction t(order, market.getStock(code), execPrice) with the
\* caller's object n: the object takes the next transaction id and joins
\* nothing.
constructTransaction(n, code, execPrice) ==
    /\ CallLeft
    /\ nextTransactionId' = nextTransactionId + 1
    /\ lastCall' = [op |-> "Transaction", nth |-> lastCall.nth + 1,
                    made |-> NewTransaction(nextTransactionId,
                                            orderObjects[n], code,
                                            execPrice)]
    /\ UNCHANGED <<engineVars, account, market, nextOrderId, orderObjects>>

\* market.simulatePriceChange(), rates[code] being the rate drawn for the
\* stock listed under the code
simulatePriceChange(rates) ==
    /\ CallLeft
    /\ market' = [code \in DOMAIN market |->
                    simulatedPrice(market[code], rates[code])]
    /\ lastCall' = [op |-> "simulatePriceChange", nth |-> lastCall.nth + 1,
                    rates |-> rates]
    /\ UNCHANGED <<engineVars, account, nextOrderId, nextTransactionId,
                   orderObjects>>

\* market.addStock(new Stock(code, name, price)). Market::getStock returns
\* the first stock of a code, so one added under a listed code is never
\* found.
addStock(code, price) ==
    /\ CallLeft
    /\ market' = IF code \in DOMAIN market THEN market
                 ELSE [c \in DOMAIN market \cup {code} |->
                         IF c = code THEN price ELSE market[c]]
    /\ lastCall' = [op |-> "addStock", nth |-> lastCall.nth + 1,
                    code |-> code, price |-> price]
    /\ UNCHANGED <<engineVars, account, nextOrderId, nextTransactionId,
                   orderObjects>>

\* Stock::updatePrice(newPrice) on the stock listed under code
updatePrice(code, newPrice) ==
    /\ CallLeft
    /\ market' = [market EXCEPT ![code] = newPrice]
    /\ lastCall' = [op |-> "updatePrice", nth |-> lastCall.nth + 1,
                    code |-> code, price |-> newPrice]
    /\ UNCHANGED <<engineVars, account, nextOrderId, nextTransactionId,
                   orderObjects>>

AccountNext ==
    \/ \E code \in OrderCodes, ot \in {"BUY", "SELL"}, qty \in OrderQtys :
          constructOrder(code, ot, qty)
    \/ \E n \in 1..Len(orderObjects) : cancel(n)
    \/ \E n \in 1..Len(orderObjects) : execute(n)
    \/ \E n \in 1..Len(orderObjects) : placeOrder(n)
    \/ \E orderId \in 1..MaxOrders : executeOrder(orderId)
    \/ \E amount \in Amounts : deposit(amount)
    \/ \E amount \in Amounts : withdraw(amount)
    \/ \E code \in DOMAIN market, qty \in OrderQtys, price \in StockPrices :
          portfolioAddPosition(code, qty, price)
    \/ \E code \in DOMAIN market, qty \in OrderQtys :
          portfolioReducePosition(code, qty)
    \/ \E code \in OrderCodes, price \in ListedPrices : addStock(code, price)
    \/ \E code \in DOMAIN market, newPrice \in StockPrices :
          updatePrice(code, newPrice)
    \/ \E code \in DOMAIN account.positions, qty \in OrderQtys,
          price \in StockPrices :
          positionAddQuantity(code, qty, price)
    \/ \E code \in DOMAIN account.positions, qty \in OrderQtys :
          positionReduceQuantity(code, qty)
    \/ \E n \in 1..Len(orderObjects), code \in DOMAIN market,
          execPrice \in ListedPrices :
          constructTransaction(n, code, execPrice)
    \/ \E rates \in [DOMAIN market -> DrawnRates] : simulatePriceChange(rates)

AccountSpec == AccountInit /\ [][AccountNext]_vars

\* ------------------------------------------------------------ claims
\* floor(n / d) for d > 0, as the specification writes its fees and averages.
Floor(n, d) == n \div d

\* The harness step just taken was the call op.
Called(op) == lastCall'.op = op

\* The members of TradingStrategy that a call on s left as they were,
\* other than the named ones.
SameBut(s, changed) ==
    \A f \in (DOMAIN obj[s]) \ changed : obj'[s][f] = obj[s][f]

\* C1: in every reachable state of every strategy, after any sequence of
\* onPrice ticks, shares = 0 implies avgPrice = 0.
C1_ZeroSharesZeroAvg ==
    \A s \in Kinds : obj[s].shares = 0 => obj[s].avgPrice = 0

\* C1's case: PanicSell has bought and then liquidated, and holds no share.
C1_Witness ==
    /\ obj["PanicSell"].buyCount = 1
    /\ obj["PanicSell"].sellCount = 1
    /\ obj["PanicSell"].shares = 0

\* C2: a successful buy(price, qty, feeRate) debits cash by exactly
\* price*qty + floor(price*qty*feeRate), adds exactly qty shares, sets
\* avgPrice to floor((avgPrice*shares + price*qty) / (shares + qty)), adds
\* one to buyCount and leaves sellCount, the equity series and every other
\* member unchanged.
C2_BuyEffect ==
    [][(Called("buy") /\ obj' # obj) =>
         LET s == lastCall'.s
             p == lastCall'.price
             q == lastCall'.qty
             f == obj[s].feeRate
             b == obj[s]
             a == obj'[s]
         IN  /\ a.cash = b.cash - (p * q + Floor(p * q * f.num, f.den))
             /\ a.shares = b.shares + q
             /\ a.avgPrice = Floor(b.avgPrice * b.shares + p * q, b.shares + q)
             /\ a.buyCount = b.buyCount + 1
             /\ a.sellCount = b.sellCount
             /\ a.equityHistory = b.equityHistory
             /\ SameBut(s, {"cash", "shares", "avgPrice", "buyCount"})
             /\ \A t \in Kinds \ {s} : obj'[t] = obj[t]]_vars

\* C2's case: a second successful buy, at a fee, on a ledger that holds
\* shares and a recorded equity point.
C2_Witness ==
    /\ lastCall.op = "buy"
    /\ obj[lastCall.s].buyCount = 2
    /\ Len(obj[lastCall.s].equityHistory) = 1
    /\ obj[lastCall.s].feeRate.num > 0

\* The ORIGINAL statement of C3: buy is a no-op whenever qty <= 0 or
\* cash < price*qty*(1 + feeRate), the product taken exactly.
C3_Original ==
    [][Called("buy") =>
         LET s == lastCall'.s
             p == lastCall'.price
             q == lastCall'.qty
             f == obj[s].feeRate
         IN  (q <= 0 \/ obj[s].cash * f.den < p * q * (f.den + f.num))
                => obj' = obj]_vars

\* C3 (amended): buy is a no-op (cash, shares, avgPrice, buyCount and every
\* other member unchanged) whenever qty <= 0 or
\* cash < price*qty + floor(price*qty*feeRate), the fee truncated as it is
\* when it is debited.
C3_BuyNoOp ==
    [][Called("buy") =>
         LET s == lastCall'.s
             p == lastCall'.price
             q == lastCall'.qty
             f == obj[s].feeRate
         IN  (q <= 0 \/ obj[s].cash < p * q + Floor(p * q * f.num, f.den))
                => obj' = obj]_vars

\* C3's case: a buy of a positive quantity was called on a fresh object and
\* left it as constructed, its cash being short of cost plus fee.
C3_Witness ==
    /\ lastCall.op = "buy"
    /\ lastCall.qty > 0
    /\ obj[lastCall.s] = NewStrategy(lastCall.s, config)
    /\ config.initialCash >= lastCall.price * lastCall.qty

\* The ORIGINAL statement of C4: for every successful buy,
\* shares_after * avgPrice_after = shares_before * avgPrice_before
\* + price * quantity.
C4_Original ==
    [][(Called("buy") /\ obj' # obj) =>
         LET s == lastCall'.s
             b == obj[s]
             a == obj'[s]
         IN  a.shares * a.avgPrice
               = b.shares * b.avgPrice + lastCall'.price * lastCall'.qty]_vars

\* C4 (amended): for every successful buy, shares_after * avgPrice_after is
\* shares_before * avgPrice_before + price * quantity less the remainder of
\* the truncated division by shares_after, so it falls short of it by less
\* than shares_after.
C4_AvgCostTruncated ==
    [][(Called("buy") /\ obj' # obj) =>
         LET s == lastCall'.s
             b == obj[s]
             a == obj'[s]
             total == b.shares * b.avgPrice + lastCall'.price * lastCall'.qty
         IN  /\ a.shares * a.avgPrice <= total
             /\ total < a.shares * a.avgPrice + a.shares]_vars

\* C4's case: buy(100, 1) then buy(81, 2): 262 / 3 truncates to 87.
C4_Witness ==
    /\ lastCall.op = "buy"
    /\ lastCall.price = 81
    /\ obj[lastCall.s].shares = 3
    /\ obj[lastCall.s].avgPrice = 87

\* C5: sellAll(price, feeRate) with shares > 0 sets shares and avgPrice to
\* 0, adds exactly price*shares - floor(price*shares*feeRate) to cash and one
\* to sellCount; with shares = 0 it changes nothing.
C5_SellAllEffect ==
    [][Called("sellAll") =>
         LET s == lastCall'.s
             p == lastCall'.price
             f == obj[s].feeRate
             b == obj[s]
             a == obj'[s]
         IN  IF b.shares > 0
             THEN /\ a.shares = 0
                  /\ a.avgPrice = 0
                  /\ a.cash = b.cash + (p * b.shares
                                         - Floor(p * b.shares * f.num, f.den))
                  /\ a.sellCount = b.sellCount + 1
                  /\ SameBut(s, {"cash", "shares", "avgPrice", "sellCount"})
             ELSE obj' = obj]_vars

\* C5's case: a sellAll, at a fee, has just liquidated bought shares.
C5_Witness ==
    /\ lastCall.op = "sellAll"
    /\ obj[lastCall.s].sellCount = 1
    /\ obj[lastCall.s].buyCount >= 1
    /\ obj[lastCall.s].shares = 0
    /\ obj[lastCall.s].feeRate.num > 0
    /\ Ops(lastCall.s) = obj[lastCall.s].buyCount + 1

\* The engine step just taken made a call on a strategy; TheCall is it.
MadeCall == Len(calls') = Len(calls) + 1
TheCall == calls'[Len(calls')]
Delivered(s) == MadeCall /\ TheCall.op = "onPrice" /\ TheCall.s = s

\* The onPrice calls the object of kind s has received, as positions of
\* the log, and the places where a list of strategies holds it.
OnPriceCalls(s) ==
    {m \in 1..Len(calls) : calls[m].op = "onPrice" /\ calls[m].s = s}

Registrations(list, s) == {n \in 1..Len(list) : list[n] = s}

\* How many ticks the first run has delivered to the strategy it found
\* registered n-th.
TicksDelivered(n) ==
    IF pc = "ticks" THEN i + (IF n < k THEN 1 ELSE 0)
    ELSE Len(runs[1].history)

\* The length of every equity series is the number of onPrice calls its
\* strategy has received; in a first run that is the number of ticks
\* processed so far, for every strategy registered once.
C6_LengthIsTicks ==
    /\ \A s \in Kinds :
          Len(obj[s].equityHistory) = Cardinality(OnPriceCalls(s))
    /\ Len(runs) = 1 =>
          \A n \in 1..Len(runs[1].strategies) :
             Cardinality(Registrations(runs[1].strategies,
                                       runs[1].strategies[n])) = 1
             => Len(obj[runs[1].strategies[n]].equityHistory)
                  = TicksDelivered(n)

\* C6: every onPrice call of every strategy appends exactly one value to
\* that strategy's equity series (and to no other), equal to
\* cash + shares*price after the tick's trade, and no other step touches a
\* series; so a series has one point for each onPrice call its strategy
\* has received: after ticks 0..i of a run on constructed strategies i+1,
\* and N after the run over N prices, for every strategy registered once.
C6_EquityPerTick ==
    /\ []C6_LengthIsTicks
    /\ [][\A s \in Kinds :
            IF Delivered(s)
            THEN obj'[s].equityHistory =
                   Append(obj[s].equityHistory,
                          obj'[s].cash + obj'[s].shares * TheCall.price)
            ELSE obj'[s].equityHistory = obj[s].equityHistory]_vars

\* C6's case: a first run over two prices is over and each of the three
\* strategies, one of them holding shares, has two equity points.
C6_Witness ==
    /\ pc = "done"
    /\ Len(runs) = 1
    /\ Len(runs[1].history) = 2
    /\ Registered = Kinds
    /\ \A s \in Kinds : Len(obj[s].equityHistory) = 2
    /\ obj["Hold"].shares > 0

\* The calls one invocation of runBattle makes, given the price history
\* and the strategies it found: tick by tick, each tick to every strategy
\* in registration order, then every onFinish with the last price. None
\* on an empty history.
CallsPerRun(run) ==
    IF run.history = <<>> THEN 0
    ELSE Len(run.history) * Len(run.strategies) + Len(run.strategies)

\* The j-th of them, j from 1.
ExpectedCall(run, j) ==
    LET S == Len(run.strategies)
        N == Len(run.history)
        n == ((j - 1) % S) + 1
        idx == (j - 1) \div S
    IN  IF j - 1 < N * S
        THEN [op |-> "onPrice", s |-> run.strategies[n], idx |-> idx,
              price |-> run.history[idx + 1],
              changeRate |->
                IF idx = 0 THEN Frac(0, 1)
                ELSE Frac((run.history[idx + 1] - run.history[idx]) * 100,
                          run.history[idx])]
        ELSE [op |-> "onFinish", s |-> run.strategies[n],
              price |-> run.history[N]]

\* The reports one invocation adds to results.
ReportsPerRun(run) == IF run.history = <<>> THEN 0 ELSE Len(run.strategies)

\* The invocation r is the one under way.
UnderWay(r) == r = Len(runs) /\ pc \in {"ticks", "finish"}

\* How many calls the invocation r has made when runBattle stands at
\* pc, i, k, and how many reports it has added.
CallsSoFar(r) ==
    IF ~UnderWay(r) THEN CallsPerRun(runs[r])
    ELSE IF pc = "ticks" THEN i * Len(runs[r].strategies) + (k - 1)
    ELSE Len(runs[r].history) * Len(runs[r].strategies) + (k - 1)

ReportsSoFar(r) ==
    IF ~UnderWay(r) THEN ReportsPerRun(runs[r])
    ELSE IF pc = "ticks" THEN 0
    ELSE k - 1

\* The reports that the invocations before r have added.
RECURSIVE ReportsBefore(_)
ReportsBefore(r) ==
    IF r <= 1 THEN 0 ELSE ReportsBefore(r - 1) + ReportsSoFar(r - 1)

\* Where the calls of invocation r end in the log.
CallsEnd(r) == IF r < Len(runs) THEN runs[r + 1].from ELSE Len(calls)

\* C7: runBattle on a non-empty series delivers ticks 0..N-1 in increasing
\* order with no gap or duplicate, each tick with the same (index, price,
\* changeRate) to every registered strategy in registration order before
\* the next tick; every onFinish(lastPrice) comes after all onPrice calls
\* of tick N-1; and the invocation adds to results one report per
\* registered strategy in registration order. Here N and the registered
\* strategies are what the invocation found.
C7_LockStep ==
    /\ runs = <<>> => calls = <<>>
    /\ runs # <<>> => runs[1].from = 0
    /\ Len(results) = ReportsBefore(Len(runs) + 1)
    /\ \A r \in 1..Len(runs) :
          /\ CallsEnd(r) - runs[r].from = CallsSoFar(r)
          /\ \A j \in 1..CallsSoFar(r) :
                calls[runs[r].from + j] = ExpectedCall(runs[r], j)
          /\ \A n \in 1..ReportsSoFar(r) :
                results[ReportsBefore(r) + n].strategyName
                  = obj[runs[r].strategies[n]].name

\* C7's case: a run over two differing prices with three strategies has
\* returned.
C7_Witness ==
    /\ pc = "done"
    /\ Len(runs) = 1
    /\ Len(runs[1].history) = 2
    /\ runs[1].history[1] # runs[1].history[2]
    /\ Len(runs[1].strategies) = 3
    /\ Len(calls) = 9
    /\ Len(results) = 3

\* C8: runBattle on an empty price series performs no work: no onPrice or
\* onFinish is called, every strategy object stays as constructed and
\* results stays empty.
C8_EmptySeriesNoWork ==
    Len(priceHistory) = 0 =>
      /\ calls = <<>>
      /\ results = <<>>
      /\ \A s \in Kinds : obj[s] = NewStrategy(s, config)
      /\ pc \in {"idle", "done"}

\* C8's case: runBattle has returned on an empty series with all three
\* strategies registered.
C8_Witness ==
    /\ pc = "done"
    /\ Len(runs) >= 1
    /\ Len(priceHistory) = 0
    /\ Len(strategies) = 3

\* The state of PanicSell in the scenario of C9 (a first run over the
\* prices 100, 90, 81, cash 1000, no fee, threshold -0.10) after tick 0
\* and after tick 1.
C9_Scenario ==
    (/\ Len(runs) = 1
     /\ runs[1].history = <<100, 90, 81>>
     /\ Cardinality(Registrations(runs[1].strategies, "PanicSell")) = 1
     /\ config.initialCash = 1000
     /\ config.feeRate = Frac(0, 1)
     /\ config.panicThreshold = Frac(-1, 10))
    => LET o == obj["PanicSell"]
       IN  /\ Len(o.equityHistory) = 1 =>
                 o.cash = 0 /\ o.shares = 10 /\ o.avgPrice = 100
           /\ Len(o.equityHistory) = 2 => o.cash = 900 /\ o.shares = 0

\* C9: on every tick on which PanicSell holds shares (avgPrice > 0) it
\* liquidates all of them exactly when
\* (price - avgPrice)/avgPrice <= stopLossRate, equality included, and
\* otherwise keeps cash and shares; and the scenario above.
C9_StopLoss ==
    /\ []C9_Scenario
    /\ [][Delivered("PanicSell") =>
            LET b == obj["PanicSell"]
                a == obj'["PanicSell"]
                r == b.stopLossRate
                sold == a.shares = 0 /\ a.sellCount = b.sellCount + 1
            IN  (b.shares > 0 /\ b.avgPrice > 0) =>
                  /\ sold <=> (TheCall.price - b.avgPrice) * r.den
                                 <= r.num * b.avgPrice
                  /\ ~sold => (a.shares = b.shares /\ a.cash = b.cash
                                /\ a.sellCount = b.sellCount)]_vars

\* C9's case: the scenario after tick 1, the price exactly at the threshold.
C9_Witness ==
    /\ Len(runs) = 1
    /\ runs[1].history = <<100, 90, 81>>
    /\ config.feeRate = Frac(0, 1)
    /\ Len(obj["PanicSell"].equityHistory) = 2
    /\ obj["PanicSell"].cash = 900
    /\ obj["PanicSell"].sellCount = 1

\* C10: PanicSell is single-shot: buyCount <= 1 and sellCount <= 1 at all
\* times, and once it has liquidated, every later tick leaves shares at 0
\* and cash unchanged.
C10_SingleShot ==
    /\ [](obj["PanicSell"].buyCount <= 1 /\ obj["PanicSell"].sellCount <= 1)
    /\ [][obj["PanicSell"].sellCount >= 1 =>
            /\ obj'["PanicSell"].shares = 0
            /\ obj'["PanicSell"].cash = obj["PanicSell"].cash
            /\ obj'["PanicSell"].buyCount = obj["PanicSell"].buyCount
            /\ obj'["PanicSell"].sellCount = obj["PanicSell"].sellCount]_vars

\* C10's case: PanicSell liquidated on tick 1 and has since processed a
\* tick whose price its cash covers, without buying.
C10_Witness ==
    LET o == obj["PanicSell"]
    IN  /\ o.sellCount = 1
        /\ o.shares = 0
        /\ Len(runs) = 1
        /\ Len(runs[1].history) = 3
        /\ Len(o.equityHistory) = 3
        /\ o.equityHistory[2] = o.cash
        /\ o.equityHistory[3] = o.cash
        /\ o.cash >= runs[1].history[3]

\* C11: on the first tick where PanicSell's cash covers at least one share
\* (floor(cash / (price + floor(price*feeRate))) >= 1) it ends the tick
\* holding floor(cash_before / (price + floor(price*feeRate))) > 0 shares,
\* with buyCount = 1.
C11_Original ==
    [][Delivered("PanicSell") =>
         LET b == obj["PanicSell"]
             a == obj'["PanicSell"]
             f == b.feeRate
             unit == TheCall.price + Floor(TheCall.price * f.num, f.den)
             q == Floor(b.cash, unit)
         IN  (~b.hasBought /\ q >= 1) =>
                (a.shares = q /\ a.shares > 0 /\ a.buyCount = 1)]_vars

\* The run of C12's scenario is over: DCA has bought, and no tick after
\* tick 0 reaches the re-buy interval or drops by the drop rate from the
\* price of tick 0.
C12_QuietRun ==
    /\ pc = "done"
    /\ Len(runs) = 1
    /\ Registrations(runs[1].strategies, "DCA") # {}
    /\ obj["DCA"].buyCount >= 1
    /\ \A idx \in 1..(Len(runs[1].history) - 1) :
          /\ idx < config.dcaInterval
          /\ (runs[1].history[idx + 1] - runs[1].history[1])
                 * config.dcaDropRate.den
               > config.dcaDropRate.num * runs[1].history[1]

\* C12: after DCA's first buy, a tick with (index - lastBuyIndex) <
\* dcaInterval and (price - lastBuyPrice)/lastBuyPrice > dcaDropRate leaves
\* shares, cash, buyCount, lastBuyIndex and lastBuyPrice unchanged; and a
\* run with no interval gap and no qualifying drop after the first buy
\* ends with buyCount = 1.
C12_NoBuyWithoutTrigger ==
    /\ [](C12_QuietRun =>
            obj["DCA"].buyCount = 1 /\ obj["DCA"].lastBuyIndex = 0)
    /\ [][Delivered("DCA") =>
            LET b == obj["DCA"]
                a == obj'["DCA"]
                r == b.dcaDropRate
            IN  (/\ b.buyCount >= 1
                 /\ TheCall.idx - b.lastBuyIndex < b.dcaInterval
                 /\ (TheCall.price - b.lastBuyPrice) * r.den
                      > r.num * b.lastBuyPrice)
                => /\ a.shares = b.shares
                   /\ a.cash = b.cash
                   /\ a.buyCount = b.buyCount
                   /\ a.lastBuyIndex = b.lastBuyIndex
                   /\ a.lastBuyPrice = b.lastBuyPrice]_vars

\* C12's case: interval 5, drop rate -0.05, three ticks of which the second
\* is 4% below the first: one buy for the whole run.
C12_Witness ==
    /\ C12_QuietRun
    /\ config.dcaInterval = 5
    /\ runs[1].history = <<100, 96, 100>>
    /\ obj["DCA"].buyCount = 1
    /\ Len(obj["DCA"].equityHistory) = 3

\* C13: on a tick where a DCA buy is triggered, the amount spent is
\* floor(cash*buyRatio), or all the cash when that is below
\* price + floor(price*feeRate); so when the cash covers one share with its
\* fee the computed quantity is at least 1: the buy is attempted (the last
\* buy index and price become those of the tick) and, when the cash covers
\* its cost, the shares grow by that quantity.
C13_Original ==
    [][Delivered("DCA") =>
         LET b == obj["DCA"]
             a == obj'["DCA"]
             price == TheCall.price
             f == b.feeRate
             unit == price + Floor(price * f.num, f.den)
             ratioAmount == Floor(b.cash * b.buyRatio.num, b.buyRatio.den)
             amount == IF ratioAmount < unit THEN b.cash ELSE ratioAmount
             q == Floor(amount, unit)
             cost == price * q
         IN  (DCAShouldBuy(b, TheCall.idx, price) /\ b.cash >= unit)
             => /\ q >= 1
                /\ a.lastBuyIndex = TheCall.idx
                /\ a.lastBuyPrice = price
                /\ (b.cash >= cost + Floor(cost * f.num, f.den)
                      => a.shares = b.shares + q)]_vars

\* C14: Hold buys at most once and never sells: buyCount <= 1 and
\* sellCount = 0 at all times, and once it has bought no later tick changes
\* its cash or shares. With ratio 0.5, cash 1000, fee 0, a tick at price 100
\* buys 5 shares and leaves cash 500, and with that holding the equity
\* recorded at every tick of price 100 is 1000.
C14_HoldBuysOnce ==
    /\ [](obj["Hold"].buyCount <= 1 /\ obj["Hold"].sellCount = 0)
    /\ [][Delivered("Hold") =>
            LET b == obj["Hold"]
                a == obj'["Hold"]
                price == TheCall.price
                equity == a.equityHistory[Len(a.equityHistory)]
            IN  /\ b.buyCount >= 1 =>
                      (a.cash = b.cash /\ a.shares = b.shares
                         /\ a.buyCount = b.buyCount)
                /\ (/\ b.buyCount = 0 /\ b.cash = 1000 /\ price = 100
                     /\ b.feeRate.num = 0
                     /\ b.initialBuyRatio = Frac(1, 2))
                   => (a.shares = 5 /\ a.cash = 500 /\ a.buyCount = 1)
                /\ (a.shares = 5 /\ a.cash = 500 /\ price = 100)
                   => equity = 1000]_vars

\* C14's case: Hold bought 5 shares at 100 with half of 1000 and has since
\* seen a second tick at 100.
C14_Witness ==
    /\ config.initialCash = 1000
    /\ config.feeRate.num = 0
    /\ obj["Hold"].shares = 5
    /\ obj["Hold"].cash = 500
    /\ obj["Hold"].avgPrice = 100
    /\ obj["Hold"].buyCount = 1
    /\ obj["Hold"].equityHistory = <<1000, 1000>>

\* The running peak of an equity series at point j: the largest value among
\* the first j points, or 0.
RunningPeak(history, j) ==
    LET upTo == {history[m] : m \in 1..j} \cup {0}
    IN  CHOOSE v \in upTo : \A w \in upTo : w <= v

\* The points of an equity series where its running peak is > 0.
PeakPoints(history) ==
    {j \in 1..Len(history) : RunningPeak(history, j) > 0}

\* The percentage pct is 100 * (peak - equity)/peak at point j, or above it.
PctAt(pct, history, j) ==
    pct.num * RunningPeak(history, j)
      = 100 * (RunningPeak(history, j) - history[j]) * pct.den

PctAtLeast(pct, history, j) ==
    pct.num * RunningPeak(history, j)
      >= 100 * (RunningPeak(history, j) - history[j]) * pct.den

NonDecreasing(history) ==
    \A m \in 1..(Len(history) - 1) : history[m] <= history[m + 1]

\* C15: the result of calculateMDD lies in [0, 100]; it is 0 for the empty
\* series and for every non-decreasing series; otherwise it is 100 times the
\* maximum of (peak - equity)/peak over the points whose running peak is > 0.
C15_MaxDrawdown ==
    lastCall.op = "calculateMDD" =>
        LET h == lastCall.history
            pct == lastCall.result
        IN  /\ pct.den > 0
            /\ 0 <= pct.num
            /\ pct.num <= 100 * pct.den
            /\ (h = <<>> \/ NonDecreasing(h)) => pct.num = 0
            /\ PeakPoints(h) = {} => pct.num = 0
            /\ PeakPoints(h) # {} =>
                  /\ \E j \in PeakPoints(h) : PctAt(pct, h, j)
                  /\ \A j \in PeakPoints(h) : PctAtLeast(pct, h, j)

\* C15's case: a series that falls from its peak by half, recovers in part
\* and ends above its low: the drawdown is that of the low, 50%.
C15_Witness ==
    /\ lastCall.op = "calculateMDD"
    /\ lastCall.history = <<100, 50, 80>>
    /\ lastCall.result.num = 50 * lastCall.result.den

\* Two returns are the same number (a NaN equals nothing).
SameReturn(r1, r2) ==
    /\ ~IsNaN(r1.totalReturn)
    /\ ~IsNaN(r2.totalReturn)
    /\ ~FracLess(r1.totalReturn, r2.totalReturn)
    /\ ~FracLess(r2.totalReturn, r1.totalReturn)

\* The one-to-one maps of the positions of a list onto themselves.
Rearrangements(n) ==
    {f \in [1..n -> 1..n] : \A a, b \in 1..n : a # b => f[a] # f[b]}

\* The ranking printRanking has just produced is a permutation of the
\* results in which no report stands before one of a greater totalReturn,
\* reports of equal totalReturn keep their order in the results, and
\* sorting the ranking again leaves it unchanged.
Ranked ==
    LET ranked == lastCall.ranked
        n == Len(results)
    IN  /\ Len(ranked) = n
        /\ \E f \in Rearrangements(n) :
              /\ \A m \in 1..n : ranked[m] = results[f[m]]
              /\ \A a, b \in 1..n :
                    (a < b /\ SameReturn(ranked[a], ranked[b]))
                      => f[a] < f[b]
        /\ \A a, b \in 1..n :
              a < b => ~FracLess(ranked[a].totalReturn, ranked[b].totalReturn)
        /\ sortRanking(ranked) = ranked

\* The ranking holds where no return of the results is NaN: with an
\* initial cash other than 0, and with an initial cash of 0 when every
\* strategy ends with an equity other than 0.
RankedWithoutNaN ==
    (/\ lastCall.op = "printRanking"
     /\ \A m \in 1..Len(results) : ~IsNaN(results[m].totalReturn))
        => Ranked

\* C16: the ranking produced by printRanking's sort is a permutation of the
\* results, in non-increasing totalReturn order (read in the claim's
\* favour: no report is ranked before one of a greater totalReturn),
\* stable (reports of equal totalReturn keep their order in the results),
\* and sorting the ranking again leaves it unchanged.
C16_Original == lastCall.op = "printRanking" => Ranked

\* C17: building a report when the configured initialCash is 0 skips the
\* division and yields totalReturn 0.
C17_Original ==
    (lastCall.op = "buildReport" /\ config.initialCash = 0)
        => (lastCall.result.totalReturn.den > 0
              /\ lastCall.result.totalReturn.num = 0)

\* The change rate runBattle hands out at tick idx of a price history.
SoloRate(history, idx) ==
    IF idx = 0 THEN Frac(0, 1)
    ELSE Frac((history[idx + 1] - history[idx]) * 100, history[idx])

\* A strategy object after it has received the tick idx of a history c times.
RECURSIVE SoloTick(_, _, _, _)
SoloTick(self, history, idx, c) ==
    IF c = 0 THEN self
    ELSE SoloTick(onPrice(self, idx, history[idx + 1],
                          SoloRate(history, idx)),
                  history, idx, c - 1)

\* A strategy object replayed over the ticks idx.. of a history by an
\* engine that holds it, and nothing else, c times.
RECURSIVE SoloTicks(_, _, _, _)
SoloTicks(self, history, idx, c) ==
    IF idx >= Len(history) THEN self
    ELSE SoloTicks(SoloTick(self, history, idx, c), history, idx + 1, c)

\* The object of kind s after the first n invocations, had each of them
\* found no other strategy registered than s, as often as it did find s.
RECURSIVE SoloRuns(_, _)
SoloRuns(s, n) ==
    IF n = 0 THEN NewStrategy(s, config)
    ELSE IF runs[n].history = <<>> THEN SoloRuns(s, n - 1)
    ELSE onFinish(SoloTicks(SoloRuns(s, n - 1), runs[n].history, 0,
                            Cardinality(Registrations(runs[n].strategies, s))),
                  runs[n].history[Len(runs[n].history)])

\* Between runs every strategy is as it would be had it run alone, and so
\* is each of its reports.
C18_AsIfAlone ==
    pc \in {"idle", "done"} =>
        /\ \A s \in Kinds : obj[s] = SoloRuns(s, Len(runs))
        /\ \A r \in 1..Len(runs) :
              \A n \in 1..ReportsPerRun(runs[r]) :
                 results[ReportsBefore(r) + n]
                   = buildReport(config, SoloRuns(runs[r].strategies[n], r),
                                 runs[r].history[Len(runs[r].history)])

\* C18: strategies do not interact: a step of the engine changes the object
\* of the strategy whose onPrice it calls and no other (onFinish changes
\* none), so the state and the reports of a strategy are what they would be
\* had it run alone, whichever other strategies are registered and in
\* whatever order.
C18_NoInteraction ==
    /\ []C18_AsIfAlone
    /\ [][\A s \in Kinds : obj'[s] # obj[s] => Delivered(s)]_vars

\* C18's case: a finished run of all three strategies, registered in an
\* order other than main's, in which each has traded in its own way.
C18_Witness ==
    /\ pc = "done"
    /\ Len(runs) = 1
    /\ runs[1].strategies = <<"Hold", "DCA", "PanicSell">>
    /\ runs[1].history = <<100, 90>>
    /\ config = Config(1000, Frac(0, 1))
    /\ obj["PanicSell"].sellCount = 1
    /\ obj["DCA"].buyCount = 2
    /\ obj["Hold"].shares = 5
    /\ Len(results) = 3

\* The invocations so far all found the price history and the strategies
\* that the engine has now.
SameEngineThroughout ==
    \A r \in 1..Len(runs) :
        runs[r].history = priceHistory /\ runs[r].strategies = strategies

\* C19: after any number of runBattle invocations on an engine with a
\* non-empty N-tick series, results holds exactly one report per registered
\* strategy and the equity series of every strategy has length N.
C19_Original ==
    (pc = "done" /\ priceHistory # <<>> /\ SameEngineThroughout) =>
        /\ Len(results) = Len(strategies)
        /\ \A s \in Registered :
              Len(obj[s].equityHistory) = Len(priceHistory)

\* A report of the panic-named strategy, of the DCA-named one, is among
\* the results.
PanicPresent == \E n \in 1..Len(results) : IsPanicName(results[n].strategyName)
DCAPresent == \E n \in 1..Len(results) : IsDCAName(results[n].strategyName)

\* The text is one of the two comparison templates.
IsComparison(comment) ==
    comment.text \in {"DCA higher by", "stop-loss better this time"}

\* C20 as stated: getSummaryComment returns the 'no comparable strategies'
\* result whenever the panic-named or the DCA-named report is absent, lists
\* of 0 or 1 reports included, and a comparison template only when both
\* are present.
C20_Original ==
    lastCall.op = "getSummaryComment" =>
        /\ (~PanicPresent \/ ~DCAPresent) => lastCall.result = NoComparable
        /\ IsComparison(lastCall.result) => (PanicPresent /\ DCAPresent)

\* C20: whenever the panic-named or the DCA-named report is absent,
\* getSummaryComment returns no comparison: the 'insufficient results' text
\* for a list of fewer than 2 reports, the 'no comparable strategies' text
\* for a longer one; it returns a comparison template only when both
\* reports are present.
C20_NoComparisonWhenAbsent ==
    lastCall.op = "getSummaryComment" =>
        /\ (~PanicPresent \/ ~DCAPresent) =>
              lastCall.result = IF Len(results) < 2 THEN TooFewResults
                                ELSE NoComparable
        /\ IsComparison(lastCall.result) => (PanicPresent /\ DCAPresent)

\* C20's case: the only report is the panic one, the DCA one is absent, and
\* the answer is the 'insufficient results' text.
C20_Witness ==
    /\ lastCall.op = "getSummaryComment"
    /\ results = <<ReportOf("PanicSell", 900)>>
    /\ ~DCAPresent
    /\ lastCall.result = TooFewResults

\* C21: ranking the empty report list is a defined outcome: printRanking
\* completes without reading any element of the ranked list, no index at or
\* beyond the length of the list being accessed.
C21_Original ==
    (lastCall.op = "printRanking" /\ results = <<>>) =>
        /\ \A idx \in lastCall.accessed : idx < Len(lastCall.ranked)
        /\ lastCall.winner \notin {"<crash>", "<garbage>"}

\* C22: entry bookkeeping changes only on a tick where a buy succeeded:
\* hasBought of PanicSell and of Hold is true only if buyCount >= 1, and
\* lastBuyIndex and lastBuyPrice of DCA change on a tick only if buyCount
\* was incremented on that tick.
C22_Original ==
    /\ [](/\ obj["PanicSell"].hasBought => obj["PanicSell"].buyCount >= 1
          /\ obj["Hold"].hasBought => obj["Hold"].buyCount >= 1)
    /\ [][Delivered("DCA") =>
            LET b == obj["DCA"]
                a == obj'["DCA"]
            IN  (a.lastBuyIndex # b.lastBuyIndex
                   \/ a.lastBuyPrice # b.lastBuyPrice)
                => a.buyCount = b.buyCount + 1]_vars

\* C23: for every strategy started with initial cash >= 0 and run over
\* prices >= 1 with a fee rate in [0, 1), cash >= 0 and shares >= 0 hold in
\* every reachable state: no trade overdraws the cash.
C23_NeverOverdrawn ==
    \A s \in Kinds : obj[s].cash >= 0 /\ obj[s].shares >= 0

\* C23's case: PanicSell has put all of its cash, to the last unit, into
\* shares: 10 shares at 100 for 1000, no fee.
C23_Witness ==
    /\ config = Config(1000, Frac(0, 1))
    /\ obj["PanicSell"].buyCount = 1
    /\ obj["PanicSell"].shares = 10
    /\ obj["PanicSell"].cash = 0
    /\ Len(obj["PanicSell"].equityHistory) = 1

\* C24: a trade costs exactly its fee. On every tick, a buy at price p of
\* qty shares lowers cash + shares*p by exactly floor(p*qty*feeRate), a
\* sellAll at price p lowers it by exactly floor(p*shares*feeRate), and a
\* tick without a trade leaves it as it was; the equity recorded is that
\* value, so with feeRate 0 it equals the pre-trade cash + shares*price at
\* the tick's price, whatever the strategy did.
C24_TradeCostsItsFee ==
    [][\A s \in Kinds : Delivered(s) =>
          LET b == obj[s]
              a == obj'[s]
              p == TheCall.price
              f == b.feeRate
              before == b.cash + b.shares * p
              after == a.cash + a.shares * p
              recorded == a.equityHistory[Len(a.equityHistory)]
              bought == a.buyCount = b.buyCount + 1
              sold == a.sellCount = b.sellCount + 1
          IN  /\ bought =>
                    after = before
                              - Floor(p * (a.shares - b.shares) * f.num, f.den)
              /\ sold => after = before - Floor(p * b.shares * f.num, f.den)
              /\ (~bought /\ ~sold) => after = before
              /\ recorded = after
              /\ f.num = 0 => recorded = before]_vars

\* C24's case: with fee 0.25 PanicSell bought 8 shares at 100 for 800 plus
\* a fee of 200 and sold them at 90 for 720 less a fee of 180: the two
\* equity points are 1000 - 200 and 720 - 180.
C24_Witness ==
    /\ config.initialCash = 1000
    /\ config.feeRate = Frac(1, 4)
    /\ obj["PanicSell"].buyCount = 1
    /\ obj["PanicSell"].sellCount = 1
    /\ obj["PanicSell"].cash = 540
    /\ obj["PanicSell"].equityHistory = <<800, 540>>

\* The positions of the account's orders that carry the id, and those of
\* them that are pending.
OrdersWithId(id) ==
    {n \in 1..Len(account.orders) : account.orders[n].orderId = id}

PendingWithId(id) ==
    {n \in OrdersWithId(id) : account.orders[n].status = "PENDING"}

\* The quantity of the code the account holds.
Held(code) ==
    IF code \in DOMAIN account.positions
    THEN account.positions[code].quantity ELSE 0

\* The order at position n cannot be paid for (BUY) or delivered (SELL) at
\* the current price.
Insufficient(n) ==
    LET order == account.orders[n]
        total == market[order.stockCode] * order.quantity
    IN  /\ order.stockCode \in DOMAIN market
        /\ IF order.orderType = "BUY"
           THEN account.balance < total + DefaultFee(total)
           ELSE Held(order.stockCode) < order.quantity

\* No order id has more than one transaction.
C25_OneTransactionPerOrder ==
    \A id \in 1..nextOrderId :
        Cardinality({n \in 1..Len(account.transactions) :
                       account.transactions[n].orderId = id}) <= 1

\* What one call of executeOrder does: it returns true only for an order
\* that is PENDING, and then marks it COMPLETED and appends exactly one
\* transaction; called for an id of which no order is pending, or when the
\* balance (BUY) or the held quantity (SELL) is insufficient, it returns
\* false and leaves the balance, the portfolio, the order statuses and the
\* transactions unchanged.
C25_EachCall ==
    [][lastCall'.op = "executeOrder" =>
         LET id == lastCall'.orderId
             pending == PendingWithId(id)
         IN  /\ lastCall'.returned =>
                   \E n \in pending :
                     /\ account'.orders =
                           [account.orders EXCEPT ![n].status = "COMPLETED"]
                     /\ Len(account'.transactions)
                           = Len(account.transactions) + 1
                     /\ account'.transactions[Len(account'.transactions)]
                           .orderId = id
                     /\ SubSeq(account'.transactions, 1,
                               Len(account.transactions))
                           = account.transactions
             /\ (pending = {} \/ \A n \in pending : Insufficient(n))
                   => (~lastCall'.returned /\ account' = account)
             /\ ~lastCall'.returned => account' = account]_vars

\* C25: an account order is executed at most once (no order has more than
\* one transaction): executeOrder returns true only for an order that is
\* PENDING, and then marks it COMPLETED and appends exactly one
\* transaction; called for an order that is not pending, or when the
\* balance (BUY) or the held quantity (SELL) is insufficient, it returns
\* false and leaves the balance, the portfolio, the order statuses and the
\* transactions unchanged.
C25_Original ==
    /\ []C25_OneTransactionPerOrder
    /\ C25_EachCall

=============================================================================
